---- MODULE Spec2Model ----
(***************************************************************************)
(* Model of the wait-time estimation engine of superque,                   *)
(* packages/shared/src/utils/queue.ts (class QueueUtils).                  *)
(*                                                                         *)
(* A behaviour is one invocation of one static method.  `op` names the     *)
(* method, `args` holds its arguments and `ret` its return value.          *)
(* calculateCompletionTimes is modelled item by item: the call sorts the   *)
(* queue and initialises the server pool, and every step of the map        *)
(* callback assigns one item.                                              *)
(*                                                                         *)
(* Numbers.  JavaScript numbers are modelled by exact rationals.  A time   *)
(* in seconds is carried as a count of 1/TimeDen second, a variance as a   *)
(* count of 1/VarDen and a value of Math.random() as a count of 1/RandDen  *)
(* (0 <= r < RandDen, because Math.random() is in [0, 1)).                 *)
(***************************************************************************)
EXTENDS Integers, Sequences, FiniteSets, TLC

VARIABLES
    pc,              \* "call", "map" (inside sortedQueue.map), "done" or "threw"
    op,              \* name of the method invoked
    args,            \* its scalar arguments
    ret,             \* its return value (scalar methods)
    queueData,       \* calculateCompletionTimes: the caller's array
    numServers,      \* calculateCompletionTimes: pool size
    sortedQueue,     \* the sorted copy, as indices into queueData
    serverEndTimes,  \* next-free time of every server
    assigned,        \* serverIndex chosen for every item processed so far
    result,          \* the entries produced by map so far
    now,             \* the system clock (new Date()), in milliseconds
    round,           \* 1 in the first invocation, 2 when it is repeated
    first,           \* <<outcome of the first invocation>> once repeated
    calls,           \* concurrent calculateCompletionTimes invocations
    pools            \* the serverEndTimes array of every concurrent invocation

vars == <<pc, op, args, ret, queueData, numServers, sortedQueue,
          serverEndTimes, assigned, result, now, round, first, calls, pools>>

(***************************************************************************)
(* Bounds of the model.                                                    *)
(***************************************************************************)
MaxItems == 3         \* longest queueData
MaxServers == 2       \* largest numServers
MaxServiceTime == 1   \* largest item.serviceTime
MaxInt == 4           \* largest scalar argument
TimeDen == 4          \* a second is TimeDen units of time
VarDen == 2           \* varianceServiceTime is a multiple of 1/VarDen
RandDen == 4          \* Math.random() is a multiple of 1/RandDen
MaxNotifications == 3 \* longest notifications array
MaxElapsed == 1       \* most milliseconds between two invocations
MaxRepeatedItems == 2 \* longest queueData of a repeated invocation
MaxConcurrentItems == 2  \* longest queueData of a concurrent invocation

(***************************************************************************)
(* Arithmetic of the JavaScript built-ins on rationals num/den, den > 0.   *)
(***************************************************************************)
Max(a, b) == IF a >= b THEN a ELSE b

Min(a, b) == IF a <= b THEN a ELSE b

\* Math.round: the nearest integer, a tie goes towards +Infinity.
Round(num, den) == (2 * num + den) \div (2 * den)

\* Math.ceil
Ceil(num, den) == -((-num) \div den)

\* Math.min(...xs) of a non-empty array
RECURSIVE MinOf(_)
MinOf(xs) ==
    IF Len(xs) = 1 THEN xs[1] ELSE Min(xs[1], MinOf(Tail(xs)))

\* Array.prototype.indexOf: the first index holding v
IndexOf(xs, v) == CHOOSE i \in 1..Len(xs) : xs[i] = v /\ \A j \in 1..(i - 1) : xs[j] # v

(***************************************************************************)
(* calculateCompletionTimes (queue.ts 244-277).                            *)
(*                                                                         *)
(* A queue item is [serviceTime, hasPosition, position]: hasPosition is    *)
(* the test 'position' in item, and position is 0 when the field is        *)
(* absent.  Items are objects, so the sorted copy and the result refer to  *)
(* them by their index in queueData.  Service times are non-negative and   *)
(* numServers is a positive integer, as the callers' validation ensures.   *)
(***************************************************************************)
\* the values of item.position: two are enough for every order of a
\* comparison, and for a comparator that is not consistent
Positions == {1, 2}

Items ==
    [serviceTime : 0..MaxServiceTime, hasPosition : {FALSE}, position : {0}]
    \cup
    [serviceTime : 0..MaxServiceTime, hasPosition : {TRUE}, position : Positions]

QueueInputs == UNION {[1..n -> Items] : n \in 0..MaxItems}

\* Comparator with the operands of the subtraction swapped
ComparatorDescending(a, b) ==
    IF a.hasPosition /\ b.hasPosition THEN b.position - a.position ELSE 0

\* the compare function passed to sort
Comparator(a, b) ==
    IF a.hasPosition /\ b.hasPosition THEN a.position - b.position ELSE 0

\* ECMAScript: the compare function is consistent for the elements of q
ConsistentComparator(q) ==
    \A i, j, k \in 1..Len(q) :
        /\ (Comparator(q[i], q[j]) = 0 /\ Comparator(q[j], q[k]) = 0)
               => Comparator(q[i], q[k]) = 0
        /\ (Comparator(q[i], q[j]) < 0 /\ Comparator(q[j], q[k]) < 0)
               => Comparator(q[i], q[k]) < 0
        /\ (Comparator(q[i], q[j]) > 0 /\ Comparator(q[j], q[k]) > 0)
               => Comparator(q[i], q[k]) > 0

\* insert index i into the sorted indices s, after every element that does
\* not compare greater than it
Insert(q, s, i) ==
    LET k == CHOOSE m \in 0..Len(s) :
                 /\ m = 0 \/ Comparator(q[s[m]], q[i]) <= 0
                 /\ \A l \in (m + 1)..Len(s) : Comparator(q[s[l]], q[i]) > 0
    IN  SubSeq(s, 1, k) \o <<i>> \o SubSeq(s, k + 1, Len(s))

\* a stable sort of the first n indices of q
RECURSIVE StableSort(_, _)
StableSort(q, n) ==
    IF n = 0 THEN <<>> ELSE Insert(q, StableSort(q, n - 1), n)

Orderings(n) ==
    {s \in [1..n -> 1..n] : \A i, j \in 1..n : s[i] = s[j] => i = j}

\* [...queueData].sort(compare): Array.prototype.sort is stable; with an
\* inconsistent compare function the order is implementation-defined.
SortOutcomes(q) ==
    IF ConsistentComparator(q)
    THEN {StableSort(q, Len(q))}
    ELSE Orderings(Len(q))

\* IsEmptyInput with the test queueData.length <= 1
IsEmptyInputOffByOne(q) == Len(q) <= 1

\* queueData.length === 0
IsEmptyInput(q) == Len(q) = 0

\* Array(numServers).fill(0)
RECURSIVE InitialServerEndTimes(_)
InitialServerEndTimes(n) ==
    IF n = 0 THEN <<>> ELSE Append(InitialServerEndTimes(n - 1), 0)

\* ServerIndex taking the last server that is free earliest
ServerIndexLast(ends) ==
    CHOOSE i \in 1..Len(ends) :
        ends[i] = MinOf(ends) /\ \A j \in (i + 1)..Len(ends) : ends[j] # MinOf(ends)

\* serverEndTimes.indexOf(Math.min(...serverEndTimes))
ServerIndex(ends) == IndexOf(ends, MinOf(ends))

\* UpdateServer without the assignment
UpdateServerLost(ends, serverIndex, endTime) == ends

\* serverEndTimes[serverIndex] = endTime
UpdateServer(ends, serverIndex, endTime) ==
    [ends EXCEPT ![serverIndex] = endTime]

\* Entry with endTime = item.serviceTime
EntryNoStart(q, sorted, ends, k) ==
    LET startTime == ends[ServerIndex(ends)]
        endTime   == q[sorted[k]].serviceTime
    IN  [item |-> sorted[k], startTime |-> startTime, endTime |-> endTime]

\* Entry with the service time subtracted
EntryEndBeforeStart(q, sorted, ends, k) ==
    LET startTime == ends[ServerIndex(ends)]
        endTime   == startTime - q[sorted[k]].serviceTime
    IN  [item |-> sorted[k], startTime |-> startTime, endTime |-> endTime]

\* the value the map callback returns for the k-th item of the sorted copy
Entry(q, sorted, ends, k) ==
    LET startTime == ends[ServerIndex(ends)]
        endTime   == startTime + q[sorted[k]].serviceTime
    IN  [item |-> sorted[k], startTime |-> startTime, endTime |-> endTime]

\* serverEndTimes after the map callback has run for the k-th item
AfterEntry(q, sorted, ends, k) ==
    UpdateServer(ends, ServerIndex(ends), Entry(q, sorted, ends, k).endTime)

\* sortedQueue.map(...) from the k-th item on
RECURSIVE MapItems(_, _, _, _)
MapItems(q, sorted, ends, k) ==
    IF k > Len(sorted)
    THEN <<>>
    ELSE <<Entry(q, sorted, ends, k)>>
         \o MapItems(q, sorted, AfterEntry(q, sorted, ends, k), k + 1)

(***************************************************************************)
(* The scalar methods.  averageServiceTime, travel and target times are    *)
(* counts of 1/TimeDen second; positions and counts are integers.          *)
(***************************************************************************)

\* CalculateWaitTime counting the people ahead, position - 1
CalculateWaitTimeAhead(position, an, vn, rn) ==
    LET waitTime == (position - 1) * an
        factor   == RandDen * VarDen + (2 * rn - RandDen) * vn
    IN  IF vn > 0
        THEN Max(0, Round(waitTime * factor, TimeDen * RandDen * VarDen))
        ELSE Max(0, Round(waitTime, TimeDen))

\* CalculateWaitTime without Math.max(0, ...)
CalculateWaitTimeNoFloor(position, an, vn, rn) ==
    LET waitTime == position * an
        factor   == RandDen * VarDen + (2 * rn - RandDen) * vn
    IN  IF vn > 0
        THEN Round(waitTime * factor, TimeDen * RandDen * VarDen)
        ELSE Round(waitTime, TimeDen)

\* lines 12-27 with Math.random() = rn/RandDen: position, averageServiceTime
\* an/TimeDen, varianceServiceTime vn/VarDen
CalculateWaitTime(position, an, vn, rn) ==
    LET waitTime == position * an                       \* over TimeDen
        factor   == RandDen * VarDen + (2 * rn - RandDen) * vn
                                                        \* over RandDen * VarDen
    IN  IF vn > 0
        THEN Max(0, Round(waitTime * factor, TimeDen * RandDen * VarDen))
        ELSE Max(0, Round(waitTime, TimeDen))

\* every value calculateWaitTime can return for these arguments
WaitTimeOutcomes(position, an, vn) ==
    {CalculateWaitTime(position, an, vn, rn) : rn \in 0..(RandDen - 1)}

\* EstimateTimeUntilPosition without the test targetPosition > currentPosition
EstimateTimeUntilPositionNoOrder(currentPosition, targetPosition, an) ==
    IF currentPosition <= 0 \/ targetPosition <= 0
    THEN 0
    ELSE LET positionsAhead == currentPosition - targetPosition
         IN  Round(positionsAhead * an, TimeDen)

\* lines 139-150
EstimateTimeUntilPosition(currentPosition, targetPosition, an) ==
    IF currentPosition <= 0 \/ targetPosition <= 0 \/ targetPosition > currentPosition
    THEN 0
    ELSE LET positionsAhead == currentPosition - targetPosition
         IN  Round(positionsAhead * an, TimeDen)

\* CalculateOptimalServers without the service time in the product
CalculateOptimalServersNoService(queueLength, an, tn) ==
    IF an <= 0 \/ tn <= 0
    THEN 1
    ELSE LET servers == Ceil(queueLength, tn)
         IN  Max(1, servers)

\* CalculateOptimalServers with Math.floor
CalculateOptimalServersFloor(queueLength, an, tn) ==
    IF an <= 0 \/ tn <= 0
    THEN 1
    ELSE LET servers == (queueLength * an) \div tn
         IN  Max(1, servers)

\* lines 193-203
CalculateOptimalServers(queueLength, an, tn) ==
    IF an <= 0 \/ tn <= 0
    THEN 1
    ELSE LET servers == Ceil(queueLength * an, tn)
         IN  Max(1, servers)

\* CalculateNoShowProbability without Math.min(1, ...)
CalculateNoShowProbabilityNoCap(totalNoShows, totalEntries) ==
    IF totalEntries <= 0
    THEN [num |-> 0, den |-> 1]
    ELSE LET ratio == [num |-> totalNoShows, den |-> totalEntries]
         IN  IF ratio.num >= 0 THEN ratio ELSE [num |-> 0, den |-> 1]

\* lines 211-217: the probability as the fraction num/den
CalculateNoShowProbability(totalNoShows, totalEntries) ==
    IF totalEntries <= 0
    THEN [num |-> 0, den |-> 1]
    ELSE LET ratio   == [num |-> totalNoShows, den |-> totalEntries]
             atLeast == IF ratio.num >= 0 THEN ratio ELSE [num |-> 0, den |-> 1]
         IN  IF atLeast.num <= atLeast.den THEN atLeast ELSE [num |-> 1, den |-> 1]

\* Math.exp(-position / 10) in millionths, for position 1..8
ExpNegTenth(position) ==
    <<904837, 818731, 740818, 670320, 606531, 548812, 496585, 449329>>[position]

\* AdjustForNoShowProbability with the adjustment added instead of subtracted
AdjustForNoShowProbabilityPlus(en, pn, pd, position) ==
    IF pn <= 0 \/ position <= 0
    THEN [num |-> en, den |-> TimeDen]
    ELSE LET scale  == 1000000
             factor == pd * scale + pn * (scale - ExpNegTenth(position))
         IN  [num |-> Round(en * factor, TimeDen * pd * scale), den |-> 1]

\* lines 226-236: estimatedWaitTime en/TimeDen, noShowProbability pn/pd; the
\* result as the fraction num/den
AdjustForNoShowProbability(en, pn, pd, position) ==
    IF pn <= 0 \/ position <= 0
    THEN [num |-> en, den |-> TimeDen]
    ELSE LET scale  == 1000000
             factor == pd * scale - pn * (scale - ExpNegTenth(position))
                                                        \* over pd * scale
         IN  [num |-> Round(en * factor, TimeDen * pd * scale), den |-> 1]

\* lines 12-27 with varianceServiceTime the fraction variance.num/variance.den
CalculateWaitTimeOf(position, an, variance, rn) ==
    LET waitTime == position * an                       \* over TimeDen
        factor   == RandDen * variance.den + (2 * rn - RandDen) * variance.num
                                               \* over RandDen * variance.den
    IN  IF variance.num > 0
        THEN Max(0, Round(waitTime * factor, TimeDen * RandDen * variance.den))
        ELSE Max(0, Round(waitTime, TimeDen))

\* an optional field of the options object: <<>> when the caller left it out
Option(field, default) == IF field = <<>> THEN default ELSE field[1]

\* CalculatedBuffer without the lower clamp
CalculatedBufferNoMin(estimatedWaitTime, bufferTime, minBufferTime, maxBufferTime) ==
    Min(Round(estimatedWaitTime * bufferTime.num, bufferTime.den), maxBufferTime)

\* lines 65-71, bufferTime the fraction bufferTime.num/bufferTime.den
CalculatedBuffer(estimatedWaitTime, bufferTime, minBufferTime, maxBufferTime) ==
    Min(Max(Round(estimatedWaitTime * bufferTime.num, bufferTime.den),
            minBufferTime),
        maxBufferTime)

\* RecommendedLeaveIn without the floor at zero
RecommendedLeaveInNoFloor(estimatedWaitTime, tn, calculatedBuffer) ==
    estimatedWaitTime * TimeDen - tn - calculatedBuffer * TimeDen

\* line 74, in units of 1/TimeDen second; travelTime is tn/TimeDen
RecommendedLeaveIn(estimatedWaitTime, tn, calculatedBuffer) ==
    Max(0, estimatedWaitTime * TimeDen - tn - calculatedBuffer * TimeDen)

\* line 75: new Date(currentTime.getTime() + recommendedLeaveIn * 1000), in
\* milliseconds; the Date constructor drops a fraction of a millisecond
LeaveAt(currentTime, recommendedLeaveIn) ==
    currentTime + (recommendedLeaveIn * 1000) \div TimeDen

\* Confidence with the thresholds one position early
ConfidenceInclusive(position) ==
    IF position >= 20 THEN "low"
    ELSE IF position >= 10 THEN "medium"
    ELSE "high"

\* lines 78-80
Confidence(position) ==
    IF position > 20 THEN "low"
    ELSE IF position > 10 THEN "medium"
    ELSE "high"

\* lines 37-91; rn is the draw of Math.random(), clock the value of new Date()
CalculateRecommendedLeaveTime(position, an, tn, options, rn, clock) ==
    LET varianceServiceTime ==
            Option(options.varianceServiceTime, [num |-> 1, den |-> 5])
        bufferTime    == Option(options.bufferTime, [num |-> 1, den |-> 5])
        minBufferTime == Option(options.minBufferTime, 5 * 60)
        maxBufferTime == Option(options.maxBufferTime, 30 * 60)
        currentTime   == Option(options.currentTime, clock)
        estimatedWaitTime ==
            CalculateWaitTimeOf(position, an, varianceServiceTime, rn)
        calculatedBuffer ==
            CalculatedBuffer(estimatedWaitTime, bufferTime,
                             minBufferTime, maxBufferTime)
        recommendedLeaveIn ==
            RecommendedLeaveIn(estimatedWaitTime, tn, calculatedBuffer)
    IN  [position           |-> position,
         estimatedWaitTime  |-> estimatedWaitTime,
         travelTime         |-> tn,
         bufferTime         |-> calculatedBuffer,
         recommendedLeaveIn |-> recommendedLeaveIn,
         leaveAt            |-> LeaveAt(currentTime, recommendedLeaveIn),
         confidence         |-> Confidence(position)]

(***************************************************************************)
(* NotificationUtils.  A notification is a record of its type, its         *)
(* priority and its data.timestamp; an optional field that is missing is   *)
(* <<>>, a present one <<value>>.  data.timestamp is held as the time      *)
(* value, in milliseconds, that new Date(data.timestamp).getTime() gives.  *)
(* A sorted array is held as the indices of its elements in the input.     *)
(***************************************************************************)

\* line 255
PriorityOrder(priority) ==
    CASE priority = "max" -> 0
      [] priority = "high" -> 1
      [] priority = "default" -> 2

\* lines 267-268: a missing or falsy data.timestamp counts as 0
TimestampOf(notification) ==
    IF notification.timestamp # <<>> /\ notification.timestamp[1] # 0
    THEN notification.timestamp[1]
    ELSE 0

\* NotificationComparator with the oldest notification first
NotificationComparatorOldestFirst(a, b) ==
    LET priorityA == PriorityOrder(Option(a.priority, "default"))
        priorityB == PriorityOrder(Option(b.priority, "default"))
    IN  IF priorityA # priorityB
        THEN priorityA - priorityB
        ELSE TimestampOf(a) - TimestampOf(b)

\* lines 257-271: the compare function passed to sort
NotificationComparator(a, b) ==
    LET priorityA == PriorityOrder(Option(a.priority, "default"))
        priorityB == PriorityOrder(Option(b.priority, "default"))
    IN  IF priorityA # priorityB
        THEN priorityA - priorityB
        ELSE TimestampOf(b) - TimestampOf(a)

\* insert index i into the sorted indices s, after every element that does
\* not compare greater than it
InsertNotification(notifications, s, i) ==
    LET k == CHOOSE m \in 0..Len(s) :
                 /\ m = 0 \/ NotificationComparator(notifications[s[m]],
                                                    notifications[i]) <= 0
                 /\ \A l \in (m + 1)..Len(s) :
                        NotificationComparator(notifications[s[l]],
                                               notifications[i]) > 0
    IN  SubSeq(s, 1, k) \o <<i>> \o SubSeq(s, k + 1, Len(s))

\* lines 254-272: Array.prototype.sort is stable and this compare function is
\* consistent (it orders by the pair priority, timestamp), so the result is
\* the stable sort of the first n elements
RECURSIVE SortNotifications(_, _)
SortNotifications(notifications, n) ==
    IF n = 0
    THEN <<>>
    ELSE InsertNotification(notifications,
                            SortNotifications(notifications, n - 1), n)

\* NotificationsAfterSort when sort is applied to the argument itself
NotificationsAfterSortInPlace(notifications) ==
    LET order == SortNotifications(notifications, Len(notifications))
    IN  [i \in 1..Len(notifications) |-> notifications[order[i]]]

\* line 257: the caller's array after the call; sort works on the copy
\* [...notifications]
NotificationsAfterSort(notifications) == notifications

\* lines 243-248: the groups after the first n notifications
RECURSIVE GroupNotifications(_, _)
GroupNotifications(notifications, n) ==
    IF n = 0
    THEN <<>>
    ELSE LET groups == GroupNotifications(notifications, n - 1)
             type   == notifications[n].type
             group  == IF type \in DOMAIN groups THEN groups[type] ELSE <<>>
         IN  [t \in DOMAIN groups \cup {type} |->
                 IF t = type THEN Append(group, n) ELSE groups[t]]

(***************************************************************************)
(* TimeUtils.  A Date is the record of its day number (days since          *)
(* 1970-01-01) and the milliseconds into that day, so that no number of    *)
(* the model needs more than 32 bits; local time is taken to be UTC.  A    *)
(* call completes with a value or by throwing.                             *)
(***************************************************************************)

MS_IN_SECOND == 1000
MS_IN_MINUTE == 60 * MS_IN_SECOND
MS_IN_HOUR == 60 * MS_IN_MINUTE
MS_IN_DAY == 24 * MS_IN_HOUR
MS_IN_WEEK == 7 * MS_IN_DAY

Value(v) == [threw |-> FALSE, value |-> v]

Thrown == [threw |-> TRUE]

\* lines 13-30
ToMilliseconds(value, unit) ==
    CASE unit = "milliseconds" -> Value(value)
      [] unit = "seconds" -> Value(value * MS_IN_SECOND)
      [] unit = "minutes" -> Value(value * MS_IN_MINUTE)
      [] unit = "hours" -> Value(value * MS_IN_HOUR)
      [] unit = "days" -> Value(value * MS_IN_DAY)
      [] unit = "weeks" -> Value(value * MS_IN_WEEK)
      [] OTHER -> Thrown

\* the day number of the civil date year-month-day (month 1..12)
DaysFromCivil(year, month, day) ==
    LET y   == IF month <= 2 THEN year - 1 ELSE year
        era == y \div 400
        yoe == y - era * 400
        mp  == (month + 9) % 12
        doy == ((153 * mp + 2) \div 5) + day - 1
        doe == yoe * 365 + (yoe \div 4) - (yoe \div 100) + doy
    IN  era * 146097 + doe - 719468

\* getFullYear, getMonth (0..11) and getDate of a day number
CivilFromDays(z) ==
    LET shifted == z + 719468
        era == shifted \div 146097
        doe == shifted - era * 146097
        yoe == (doe - (doe \div 1460) + (doe \div 36524) - (doe \div 146096))
                   \div 365
        doy == doe - (365 * yoe + (yoe \div 4) - (yoe \div 100))
        mp  == (5 * doy + 2) \div 153
        m   == IF mp < 10 THEN mp + 3 ELSE mp - 9
    IN  [year  |-> yoe + era * 400 + (IF m <= 2 THEN 1 ELSE 0),
         month |-> m - 1,
         date  |-> doy - ((153 * mp + 2) \div 5) + 1]

GetFullYear(d) == CivilFromDays(d.day).year
GetMonth(d) == CivilFromDays(d.day).month
GetDate(d) == CivilFromDays(d.day).date
\* 1970-01-01 was a Thursday
GetDay(d) == (d.day + 4) % 7
GetHours(d) == d.ms \div MS_IN_HOUR
GetMinutes(d) == (d.ms % MS_IN_HOUR) \div MS_IN_MINUTE
GetSeconds(d) == (d.ms % MS_IN_MINUTE) \div MS_IN_SECOND
GetMilliseconds(d) == d.ms % MS_IN_SECOND

\* new Date(year, month, date, hours, minutes, seconds, ms): fields out of
\* range carry into the next larger one
NewDate(year, month, date, hours, minutes, seconds, ms) ==
    LET day  == DaysFromCivil(year + (month \div 12), (month % 12) + 1, 1) + date - 1
        time == hours * MS_IN_HOUR + minutes * MS_IN_MINUTE
                    + seconds * MS_IN_SECOND + ms
    IN  [day |-> day + (time \div MS_IN_DAY), ms |-> time % MS_IN_DAY]

\* new Date(d.getTime() + ms)
AddMilliseconds(d, ms) ==
    [day |-> d.day + ((d.ms + ms) \div MS_IN_DAY),
     ms  |-> (d.ms + ms) % MS_IN_DAY]

\* new Date(): the Date of the clock reading, milliseconds after 1970-01-01
DateOfTime(time) == [day |-> time \div MS_IN_DAY, ms |-> time % MS_IN_DAY]

\* lines 119-144: the quotient as the fraction num/den; clock is new Date()
DateDiff(date1, date2, unit, clock) ==
    LET d1     == date1
        d2     == Option(date2, DateOfTime(clock))
        diff   == (d2.day - d1.day) * MS_IN_DAY + (d2.ms - d1.ms)
        diffMs == IF diff < 0 THEN -diff ELSE diff
    IN  CASE unit = "milliseconds" -> Value([num |-> diffMs, den |-> 1])
          [] unit = "seconds" -> Value([num |-> diffMs, den |-> MS_IN_SECOND])
          [] unit = "minutes" -> Value([num |-> diffMs, den |-> MS_IN_MINUTE])
          [] unit = "hours" -> Value([num |-> diffMs, den |-> MS_IN_HOUR])
          [] unit = "days" -> Value([num |-> diffMs, den |-> MS_IN_DAY])
          [] unit = "weeks" -> Value([num |-> diffMs, den |-> MS_IN_WEEK])
          [] OTHER -> Thrown

\* lines 149-157
AddTime(date, amount, unit) ==
    LET ms == ToMilliseconds(amount, unit)
    IN  IF ms.threw THEN Thrown ELSE Value(AddMilliseconds(date, ms.value))

\* lines 162-168
SubtractTime(date, amount, unit) == AddTime(date, -amount, unit)

\* line 199: diff = d.getDate() - day + (day === 0 ? -6 : 1)
WeekStartDate(d) == GetDate(d) - GetDay(d) + (IF GetDay(d) = 0 THEN -6 ELSE 1)

\* lines 187-227; in the week case setDate keeps the time of day
StartOf(d, unit) ==
    CASE unit = "year" -> Value(NewDate(GetFullYear(d), 0, 1, 0, 0, 0, 0))
      [] unit = "month" ->
             Value(NewDate(GetFullYear(d), GetMonth(d), 1, 0, 0, 0, 0))
      [] unit = "week" ->
             Value(NewDate(GetFullYear(d), GetMonth(d), WeekStartDate(d),
                           GetHours(d), GetMinutes(d), GetSeconds(d),
                           GetMilliseconds(d)))
      [] unit = "day" ->
             Value(NewDate(GetFullYear(d), GetMonth(d), GetDate(d), 0, 0, 0, 0))
      [] unit = "hour" ->
             Value(NewDate(GetFullYear(d), GetMonth(d), GetDate(d),
                           GetHours(d), 0, 0, 0))
      [] unit = "minute" ->
             Value(NewDate(GetFullYear(d), GetMonth(d), GetDate(d),
                           GetHours(d), GetMinutes(d), 0, 0))
      [] unit = "second" ->
             Value(NewDate(GetFullYear(d), GetMonth(d), GetDate(d),
                           GetHours(d), GetMinutes(d), GetSeconds(d), 0))
      [] OTHER -> Thrown

\* lines 232-275
EndOf(d, unit) ==
    CASE unit = "year" ->
             Value(NewDate(GetFullYear(d) + 1, 0, 0, 23, 59, 59, 999))
      [] unit = "month" ->
             Value(NewDate(GetFullYear(d), GetMonth(d) + 1, 0, 23, 59, 59, 999))
      [] unit = "week" ->
             Value(NewDate(GetFullYear(d), GetMonth(d), WeekStartDate(d) + 6,
                           23, 59, 59, 999))
      [] unit = "day" ->
             Value(NewDate(GetFullYear(d), GetMonth(d), GetDate(d) + 1,
                           0, 0, 0, 0))
      [] unit = "hour" ->
             Value(NewDate(GetFullYear(d), GetMonth(d), GetDate(d),
                           GetHours(d) + 1, 0, 0, 0))
      [] unit = "minute" ->
             Value(NewDate(GetFullYear(d), GetMonth(d), GetDate(d),
                           GetHours(d), GetMinutes(d) + 1, 0, 0))
      [] unit = "second" ->
             Value(NewDate(GetFullYear(d), GetMonth(d), GetDate(d),
                           GetHours(d), GetMinutes(d), GetSeconds(d) + 1, 0))
      [] OTHER -> Thrown

(***************************************************************************)
(* The notification payload builders.  A message is the sequence of the    *)
(* pieces its template joins; data is a function from keys to values, and  *)
(* ...data after the builder's own keys lets the caller's keys win.        *)
(***************************************************************************)

\* new Date().toISOString(): the fields of YYYY-MM-DDTHH:mm:ss.sssZ
ToISOString(time) ==
    LET d == DateOfTime(time)
    IN  <<GetFullYear(d), GetMonth(d) + 1, GetDate(d), GetHours(d),
          GetMinutes(d), GetSeconds(d), GetMilliseconds(d)>>

\* { ...own, ...data }
Spread(own, data) == data @@ own

\* notifications.ts lines 69-85
CreateYourTurnSoonNotification(queueName, minutesUntilTurn, data) ==
    [type     |-> "YOUR_TURN_SOON",
     title    |-> "Heads Up!",
     message  |-> <<"Your turn for ", queueName, " is coming up in about ",
                    minutesUntilTurn, " minute",
                    IF minutesUntilTurn # 1 THEN "s" ELSE "", ".">>,
     data     |-> Spread([queueName |-> queueName,
                          minutesUntilTurn |-> minutesUntilTurn], data),
     priority |-> "high"]

\* notifications.ts lines 90-106; clock is the value of new Date()
CreateYourTurnNowNotification(queueName, data, clock) ==
    [type     |-> "YOUR_TURN_NOW",
     title    |-> "It's Your Turn!",
     message  |-> <<"Please proceed to ", queueName, ".">>,
     data     |-> Spread([queueName |-> queueName,
                          timestamp |-> ToISOString(clock)], data),
     priority |-> "max",
     sound    |-> TRUE]

\* notifications.ts lines 111-148; reason is <<>> when left out
CreateQueueStatusNotification(status, queueName, reason, data, clock) ==
    [type     |-> <<"QUEUE_", status>>,
     title    |-> CASE status = "PAUSED" -> "Queue Paused"
                    [] status = "RESUMED" -> "Queue Resumed"
                    [] status = "CLOSED" -> "Queue Closed",
     message  |-> CASE status = "PAUSED" ->
                           IF reason # <<>> /\ reason # <<"">>
                           THEN <<"The queue for ", queueName,
                                  " has been paused: ", reason[1]>>
                           ELSE <<"The queue for ", queueName,
                                  " has been paused.">>
                    [] status = "RESUMED" ->
                           <<"The queue for ", queueName, " has been resumed.">>
                    [] status = "CLOSED" ->
                           <<"The queue for ", queueName, " has been closed.">>,
     data     |-> Spread([queueName |-> queueName,
                          status    |-> status,
                          reason    |-> reason,
                          timestamp |-> ToISOString(clock)], data),
     priority |-> "high"]

\* notifications.ts lines 153-168
CreateCustomNotification(title, message, data, clock) ==
    [type     |-> "CUSTOM_MESSAGE",
     title    |-> title,
     message  |-> message,
     data     |-> Spread([timestamp |-> ToISOString(clock)], data),
     priority |-> "default"]

(***************************************************************************)
(* formatPosition and the status predicates.  A formatted position is the  *)
(* sequence of the pieces its template joins.                              *)
(***************************************************************************)

\* FormatPosition without the test for 11, 12 and 13
FormatPositionNoTeens(position) ==
    IF position <= 0
    THEN <<"Next">>
    ELSE LET lastDigit == position % 10
         IN  CASE lastDigit = 1 -> <<position, "st">>
               [] lastDigit = 2 -> <<position, "nd">>
               [] lastDigit = 3 -> <<position, "rd">>
               [] OTHER -> <<position, "th">>

\* queue.ts lines 110-130
FormatPosition(position) ==
    IF position <= 0
    THEN <<"Next">>
    ELSE LET lastDigit     == position % 10
             lastTwoDigits == position % 100
         IN  IF lastTwoDigits >= 11 /\ lastTwoDigits <= 13
             THEN <<position, "th">>
             ELSE CASE lastDigit = 1 -> <<position, "st">>
                    [] lastDigit = 2 -> <<position, "nd">>
                    [] lastDigit = 3 -> <<position, "rd">>
                    [] OTHER -> <<position, "th">>

\* queue.ts lines 96-98
IsActiveStatus(status) == status \in {"WAITING", "CALLED"}

\* IsCompletedStatus with CALLED counted as completed
IsCompletedStatusWithCalled(status) ==
    status \in {"CALLED", "SERVED", "NOSHOW", "CANCELLED"}

\* queue.ts lines 103-105
IsCompletedStatus(status) == status \in {"SERVED", "NOSHOW", "CANCELLED"}

(***************************************************************************)
(* calculateNotificationTime.  Times are counts of 1/TimeDen second;       *)
(* notificationOffset is whole seconds, <<>> when the caller leaves it out.*)
(***************************************************************************)

\* CalculateNotificationTime without the floor at zero
CalculateNotificationTimeNoFloor(currentPosition, an, tn, notificationOffset) ==
    currentPosition * an - tn - Option(notificationOffset, 5 * 60) * TimeDen

\* CalculateNotificationTime with the offset added to the estimate
CalculateNotificationTimeLate(currentPosition, an, tn, notificationOffset) ==
    Max(0, currentPosition * an - tn
               + Option(notificationOffset, 5 * 60) * TimeDen)

\* queue.ts lines 160-168
CalculateNotificationTime(currentPosition, an, tn, notificationOffset) ==
    LET estimatedTime == currentPosition * an
    IN  Max(0, estimatedTime - tn
                   - Option(notificationOffset, 5 * 60) * TimeDen)

(***************************************************************************)
(* formatDuration and parseDuration (time.ts 35-74, 294-323).  A string is *)
(* the sequence of its characters.                                         *)
(***************************************************************************)

DigitChars == <<"0", "1", "2", "3", "4", "5", "6", "7", "8", "9">>

\* `${n}` for an integer n >= 0: its decimal digits
RECURSIVE NumberToString(_)
NumberToString(n) ==
    IF n < 10
    THEN <<DigitChars[n + 1]>>
    ELSE Append(NumberToString(n \div 10), DigitChars[(n % 10) + 1])

\* lines 35-74; precision is not read by the code
FormatDuration(ms) ==
    LET seconds == ms \div MS_IN_SECOND
        minutes == seconds \div 60
        hours   == minutes \div 60
        days    == hours \div 24
        weeks   == days \div 7
        remainingSeconds == seconds % 60
        remainingMinutes == minutes % 60
        remainingHours   == hours % 24
        remainingDays    == days % 7
    IN  IF ms < 1000 THEN NumberToString(ms) \o <<"m", "s">>
        ELSE IF seconds < 60 THEN NumberToString(seconds) \o <<"s">>
        ELSE IF minutes < 60 THEN
            IF remainingSeconds > 0
            THEN NumberToString(minutes) \o <<"m", " ">>
                     \o NumberToString(remainingSeconds) \o <<"s">>
            ELSE NumberToString(minutes) \o <<"m">>
        ELSE IF hours < 24 THEN
            IF remainingMinutes > 0
            THEN NumberToString(hours) \o <<"h", " ">>
                     \o NumberToString(remainingMinutes) \o <<"m">>
            ELSE NumberToString(hours) \o <<"h">>
        ELSE IF days < 7 THEN
            IF remainingHours > 0
            THEN NumberToString(days) \o <<"d", " ">>
                     \o NumberToString(remainingHours) \o <<"h">>
            ELSE NumberToString(days) \o <<"d">>
        ELSE IF remainingDays > 0
            THEN NumberToString(weeks) \o <<"w", " ">>
                     \o NumberToString(remainingDays) \o <<"d">>
            ELSE NumberToString(weeks) \o <<"w">>

IsDigit(c) == \E k \in 1..10 : DigitChars[k] = c

\* the character class [smhdw]
IsUnitLetter(c) == c \in {"s", "m", "h", "d", "w"}

\* the first index from i on that holds no digit
RECURSIVE EndOfDigits(_, _)
EndOfDigits(s, i) ==
    IF i <= Len(s) /\ IsDigit(s[i]) THEN EndOfDigits(s, i + 1) ELSE i

\* parseInt(match[1], 10) for the digits s[i..j]
RECURSIVE ParseInt(_, _, _)
ParseInt(s, i, j) ==
    IF j < i
    THEN 0
    ELSE ParseInt(s, i, j - 1) * 10
             + (CHOOSE k \in 0..9 : DigitChars[k + 1] = s[j])

\* the milliseconds the switch adds for one unit letter
UnitMilliseconds(c) ==
    CASE c = "s" -> 1000
      [] c = "m" -> 60 * 1000
      [] c = "h" -> 60 * 60 * 1000
      [] c = "d" -> 24 * 60 * 60 * 1000
      [] c = "w" -> 7 * 24 * 60 * 60 * 1000

\* the exec loop of /(\d+)([smhdw])/g from index i on: a match is a run of
\* digits followed at once by a unit letter; without one the search moves on
\* by one character
RECURSIVE ScanDuration(_, _, _)
ScanDuration(s, i, totalMs) ==
    IF i > Len(s) THEN totalMs
    ELSE IF ~IsDigit(s[i]) THEN ScanDuration(s, i + 1, totalMs)
    ELSE LET j == EndOfDigits(s, i)
         IN  IF j <= Len(s) /\ IsUnitLetter(s[j])
             THEN ScanDuration(s, j + 1,
                      totalMs + ParseInt(s, i, j - 1) * UnitMilliseconds(s[j]))
             ELSE ScanDuration(s, i + 1, totalMs)

\* lines 294-323
ParseDuration(timeString) == ScanDuration(timeString, 1, 0)

(***************************************************************************)
(* GeoUtils (geo.ts).  Angles are counts of 1/AngleDen degree.  A distance *)
(* is a whole number of arcs of its unit, one arc being EARTH_RADIUS_KM *  *)
(* pi / 180 units long: a distance of n arcs in km has the angular         *)
(* distance n degrees, so that no operator needs pi.  The trigonometric    *)
(* functions are taken at the angles where their values are rational:      *)
(* latitudes 0 and +-60 and bearings that are multiples of 90 degrees.     *)
(***************************************************************************)

\* 1.60934 and 1 / 1000 are whole numbers of 1/AngleDen
AngleDen == 100000

\* the JavaScript operator %: the remainder has the sign of the dividend
JsRemainder(a, b) == IF a >= 0 THEN a % b ELSE -((-a) % b)

RECURSIVE Gcd(_, _)
Gcd(a, b) == IF b = 0 THEN a ELSE Gcd(b, a % b)

\* the number num / den in lowest terms, den > 0
Fraction(num, den) ==
    LET g == Gcd(IF num < 0 THEN -num ELSE num, den)
    IN  [num |-> num \div g, den |-> den \div g]

\* the product of two numbers in lowest terms
Times(x, y) ==
    LET a == Fraction(x.num, y.den)
        b == Fraction(y.num, x.den)
    IN  [num |-> a.num * b.num, den |-> a.den * b.den]

\* lines 239-275: meters as the pivot
ConvertDistance(value, fromUnit, toUnit) ==
    LET v == Fraction(value, 1)
        meters ==
            CASE fromUnit = "km" -> Times(v, Fraction(1000, 1))
              [] fromUnit = "mi" -> Times(v, Fraction(160934, 100))
              [] fromUnit = "ft" -> Times(v, Fraction(3048, 10000))
              [] OTHER -> v
    IN  IF fromUnit = toUnit THEN v
        ELSE CASE toUnit = "km" -> Times(meters, Fraction(1, 1000))
               [] toUnit = "mi" -> Times(meters, Fraction(100, 160934))
               [] toUnit = "ft" -> Times(meters, Fraction(10000, 3048))
               [] OTHER -> meters

\* line 85, in 1/AngleDen km: every unit but km and m is multiplied by 1.60934
RadiusKm(radius, unit) ==
    IF unit = "km" THEN radius * AngleDen
    ELSE IF unit = "m" THEN (radius * AngleDen) \div 1000
    ELSE radius * 160934

\* 1 / Math.cos(lat) at the latitudes 0, 60 and -60
Secant(lat) == IF lat = 0 THEN 1 ELSE 2

\* lines 79-110: center in whole degrees; radiusKm / R radians is radiusKm
\* degrees when the radius is counted in arcs
GetBoundingBox(center, radius, unit) ==
    LET radiusKm == RadiusKm(radius, Option(unit, "km"))
        lat      == center.lat * AngleDen
        lng      == center.lng * AngleDen
        d        == radiusKm
    IN  [minLat |-> lat - d, maxLat |-> lat + d,
         minLng |-> lng - d * Secant(center.lat),
         maxLng |-> lng + d * Secant(center.lat)]

\* line 147, in 1/AngleDen km
DistanceKm(distance, unit) ==
    IF unit = "km" THEN distance * AngleDen
    ELSE IF unit = "m" THEN (distance * AngleDen) \div 1000
    ELSE distance * 160934

\* Math.atan2(Math.sin(a), Math.cos(a)): the angle of (-180, 180] degrees
\* that differs from a by whole turns
Principal(a) ==
    LET r == a % (360 * AngleDen)
    IN  IF r > 180 * AngleDen THEN r - 360 * AngleDen ELSE r

\* Math.asin(Math.sin(a))
AsinOfSin(a) ==
    LET p == Principal(a)
    IN  IF p > 90 * AngleDen THEN 180 * AngleDen - p
        ELSE IF p < -90 * AngleDen THEN -180 * AngleDen - p
        ELSE p

\* Math.atan2(0, Math.cos(a))
Atan2OfZero(a) ==
    LET p == Principal(a)
    IN  IF p > 90 * AngleDen \/ p < -90 * AngleDen THEN 180 * AngleDen ELSE 0

\* lines 157-160 for a start on the equator: asin(sin(angularDistance) *
\* cos(bearingRad))
DestinationLatitude(angularDistance, bearing) ==
    CASE bearing = 0 -> AsinOfSin(angularDistance)
      [] bearing = 180 -> -AsinOfSin(angularDistance)
      [] OTHER -> 0

\* lines 163-168 for a start on the equator: lng1 + atan2(sin(bearingRad) *
\* sin(angularDistance), cos(angularDistance)), in degrees
DestinationLongitude(lng1, angularDistance, bearing) ==
    lng1 * AngleDen
        + (CASE bearing = 90 -> Principal(angularDistance)
             [] bearing = 270 -> Principal(-angularDistance)
             [] OTHER -> Atan2OfZero(angularDistance))

\* NormalizeLongitude without the wrap
NormalizeLongitudeNoWrap(lng) == lng

\* lines 173 and 204: ((lng + 540) % 360) - 180
NormalizeLongitude(lng) ==
    JsRemainder(lng + 540 * AngleDen, 360 * AngleDen) - 180 * AngleDen

\* lines 140-175, start.lat = 0
CalculateDestination(start, distance, bearing, unit) ==
    LET distanceKm      == DistanceKm(distance, Option(unit, "km"))
        angularDistance == distanceKm
    IN  [lat |-> DestinationLatitude(angularDistance, bearing),
         lng |-> NormalizeLongitude(
                     DestinationLongitude(start.lng, angularDistance, bearing))]

\* line 199 for two points of the equator that are not opposite each other:
\* lng1 + atan2(sin(lng2 - lng1), 1 + cos(lng2 - lng1)), half the angle
MidpointLongitude(lng1, lng2) ==
    lng1 * AngleDen + (Principal((lng2 - lng1) * AngleDen) \div 2)

\* lines 183-206, both latitudes 0
CalculateMidpoint(coord1, coord2) ==
    [lat |-> 0,
     lng |-> NormalizeLongitude(MidpointLongitude(coord1.lng, coord2.lng))]

(***************************************************************************)
(* The state machine.  Init is the moment of a call, with the method and   *)
(* its arguments chosen by the caller.                                     *)
(***************************************************************************)
Ints == (-1)..MaxInt

Variances == (-1)..(VarDen + 1)

\* estimated wait times: fractions of a second and a ten-second estimate
Estimates == Ints \cup {10 * TimeDen}

\* the options objects of calculateRecommendedLeaveTime
LeaveTimeOptions ==
    [varianceServiceTime : {<<>>, <<[num |-> 0, den |-> 1]>>,
                                  <<[num |-> 1, den |-> 2]>>},
     bufferTime          : {<<>>, <<[num |-> 0, den |-> 1]>>,
                                  <<[num |-> 1, den |-> 2]>>},
     minBufferTime       : {<<>>, <<0>>, <<600>>},
     maxBufferTime       : {<<>>, <<100>>},
     currentTime         : {<<>>, <<5000>>}]

\* positions around the confidence thresholds, service times of 0 s, 1/TimeDen s,
\* 60 s and 600 s, travel times of 0 s, 1/TimeDen s and 300 s
LeaveTimeCalls ==
    [op : {"calculateRecommendedLeaveTime"},
     args : {-1, 0, 1, 10, 11, 20, 21, 25}
            \X {0, 1, 60 * TimeDen, 600 * TimeDen}
            \X {0, 1, 300 * TimeDen}
            \X LeaveTimeOptions]

\* notifications as sortNotifications reads them
SortableNotifications ==
    [type      : {"CUSTOM_MESSAGE"},
     priority  : {<<>>, <<"default">>, <<"high">>, <<"max">>},
     timestamp : {<<>>, <<-1>>, <<1>>, <<2>>}]

\* notifications as groupNotifications reads them
GroupableNotifications ==
    [type      : {"POSITION_CHANGED", "YOUR_TURN_NOW", "CUSTOM_MESSAGE"},
     priority  : {<<>>, <<"high">>},
     timestamp : {<<>>}]

ArraysOf(elements) == UNION {[1..n -> elements] : n \in 0..MaxNotifications}

NotificationCalls ==
    [op : {"sortNotifications"},
     args : {<<notifications>> : notifications \in ArraysOf(SortableNotifications)}]
    \cup [op : {"groupNotifications"},
          args : {<<notifications>> :
                      notifications \in ArraysOf(GroupableNotifications)}]

\* line 1 and lines 189, 234: the units each operation supports
TimeUnits == {"milliseconds", "seconds", "minutes", "hours", "days", "weeks"}

Periods == {"year", "month", "week", "day", "hour", "minute", "second"}

\* every unit of either kind and two that are neither: a period is not a
\* time unit and a time unit is not a period
UnitInputs == TimeUnits \cup Periods \cup {"months", "quarter"}

\* the epoch, a Sunday afternoon, the last millisecond of a year that ends
\* on a Sunday, a Monday midnight, a leap day and a Saturday
Dates ==
    {NewDate(1970, 0, 1, 0, 0, 0, 0), NewDate(1970, 0, 4, 12, 34, 56, 789),
     NewDate(2023, 11, 31, 23, 59, 59, 999), NewDate(2024, 0, 1, 0, 0, 0, 0),
     NewDate(2024, 1, 29, 12, 34, 56, 789), NewDate(2024, 2, 2, 6, 0, 0, 1)}

\* amounts of time; the milliseconds of three weeks still fit 32 bits
Amounts == {-1, 0, 1, 3}

\* the second date of dateDiff may be left out; the dates are at most three
\* weeks apart
DateDiffArgs ==
    {a \in Dates \X ({<<>>} \cup {<<d>> : d \in Dates}) \X UnitInputs :
        LET d2 == Option(a[2], DateOfTime(0))
        IN  a[1].day - d2.day \in (-21)..21}

TimeCalls ==
    [op : {"toMilliseconds"}, args : Amounts \X UnitInputs]
    \cup [op : {"dateDiff"}, args : DateDiffArgs]
    \cup [op : {"addTime", "subtractTime"}, args : Dates \X Amounts \X UnitInputs]
    \cup [op : {"startOf", "endOf"}, args : Dates \X UnitInputs]

\* the data argument: left empty, a key of the caller's, or the caller's own
\* timestamp
DataInputs ==
    {<<>>, [orderId |-> 7], [timestamp |-> <<2024, 1, 1, 0, 0, 0, 0>>]}

BuilderCalls ==
    [op : {"createYourTurnSoonNotification"},
     args : {"Front desk"} \X {1, 5} \X DataInputs]
    \cup [op : {"createYourTurnNowNotification"},
          args : {"Front desk"} \X DataInputs]
    \cup [op : {"createQueueStatusNotification"},
          args : {"PAUSED", "RESUMED", "CLOSED"} \X {"Front desk"}
                 \X {<<>>, <<"lunch">>} \X DataInputs]
    \cup [op : {"createCustomNotification"},
          args : {"Notice"} \X {"Closing early"} \X DataInputs]

\* small positions and positions whose last two digits are around 11..13
FormatPositionCalls ==
    [op : {"formatPosition"},
     args : {<<position>> : position \in
                Ints \cup {9, 10, 11, 12, 13, 14, 20, 21, 22, 23, 24,
                           100, 101, 102, 103, 111, 112, 113, 121, 1011}}]

\* schemas/common.ts line 304
QueueEntryStatuses == {"WAITING", "CALLED", "SERVED", "NOSHOW", "CANCELLED"}

StatusCalls ==
    [op : {"isActiveStatus", "isCompletedStatus"},
     args : {<<status>> : status \in QueueEntryStatuses}]

\* positions across the confidence thresholds; service times of 0 s,
\* 1/TimeDen s, 60 s, just under 61 s and 600 s; travel times of 0 s,
\* 1/TimeDen s and 300 s; the offset left out, 0 s or 60 s
NotificationTimeCalls ==
    [op : {"calculateNotificationTime"},
     args : {-1, 0, 1, 10, 11, 25}
            \X {0, 1, 60 * TimeDen, 61 * TimeDen - 1, 600 * TimeDen}
            \X {0, 1, 300 * TimeDen}
            \X {<<>>, <<0>>, <<60>>}]

\* durations on both sides of every threshold of formatDuration, none above
\* three weeks
Durations ==
    {0, 1, 500, 999, 1000, 1500, 59999, 60000, 61000, 3599999, 3600000,
     5400000, 5430000, 86399999, 86400000, 90000000, 604799999, 604800000,
     694800000, 1209600000, 1300000000}

\* "2h 30m", "1w 2d", "90s", "abc", "", "15 m" and "7ms"
DurationStrings ==
    {<<"2", "h", " ", "3", "0", "m">>, <<"1", "w", " ", "2", "d">>,
     <<"9", "0", "s">>, <<"a", "b", "c">>, <<>>, <<"1", "5", " ", "m">>,
     <<"7", "m", "s">>}

DurationCalls ==
    [op : {"formatDuration"}, args : {<<ms>> : ms \in Durations}]
    \cup [op : {"parseDuration"}, args : {<<s>> : s \in DurationStrings}]

DistanceUnits == {"km", "m", "mi", "ft"}

\* the unit may be left out
UnitOptions == {<<>>} \cup {<<unit>> : unit \in DistanceUnits}

\* longitudes of the schema's range -180..180, both ends included
Longitudes == {-180, -170, -90, 0, 10, 170, 180}

\* whole numbers of arcs; none is a half turn of the sphere in any unit
Distances == {0, 1, 10, 100, 190}

GeoCalls ==
    [op : {"getBoundingBox"},
     args : [lat : {0, 60, -60}, lng : {0, 170, -180}]
            \X {0, 1, 5, 1000} \X UnitOptions]
    \cup [op : {"calculateDestination"},
          args : [lat : {0}, lng : Longitudes] \X Distances
                 \X {0, 90, 180, 270} \X UnitOptions]
    \cup [op : {"calculateMidpoint"},
          args : {a \in [lat : {0}, lng : Longitudes]
                        \X [lat : {0}, lng : Longitudes] :
                     a[2].lng - a[1].lng \notin {-180, 180}}]
    \cup [op : {"convertDistance"},
          args : {0, 1, 5, 1000} \X DistanceUnits \X DistanceUnits]

ScalarCalls ==
    [op : {"calculateWaitTime"}, args : Ints \X Ints \X Variances]
    \cup [op : {"estimateTimeUntilPosition"}, args : Ints \X Ints \X Ints]
    \cup [op : {"calculateOptimalServers"}, args : Ints \X Ints \X Ints]
    \cup [op : {"calculateNoShowProbability"}, args : Ints \X Ints]
    \cup [op : {"adjustForNoShowProbability"},
          args : Estimates \X Ints \X (1..MaxInt) \X Ints]
    \cup LeaveTimeCalls
    \cup NotificationCalls
    \cup TimeCalls
    \cup BuilderCalls
    \cup FormatPositionCalls
    \cup StatusCalls
    \cup NotificationTimeCalls
    \cup DurationCalls
    \cup GeoCalls

Init ==
    /\ pc = "call"
    /\ ret = 0
    /\ sortedQueue = <<>>
    /\ serverEndTimes = <<>>
    /\ assigned = <<>>
    /\ result = <<>>
    /\ now = 0
    /\ round = 1
    /\ first = <<>>
    /\ calls = <<>>
    /\ pools = <<>>
    /\ \/ /\ op = "calculateCompletionTimes"
          /\ args = <<>>
          /\ queueData \in QueueInputs
          /\ numServers \in {-1} \cup 1..MaxServers
       \/ /\ \E c \in ScalarCalls : op = c.op /\ args = c.args
          /\ queueData = <<>>
          /\ numServers = 1

\* lines 248-260: the early return, the sorted copy and the server pool
CalculateCompletionTimes ==
    /\ pc = "call"
    /\ op = "calculateCompletionTimes"
    /\ IF IsEmptyInput(queueData)
       THEN /\ pc' = "done"
            /\ UNCHANGED <<sortedQueue, serverEndTimes>>
       ELSE IF numServers < 0
       THEN \* line 260: Array(numServers) throws RangeError after the sort
            /\ pc' = "threw"
            /\ sortedQueue' \in SortOutcomes(queueData)
            /\ UNCHANGED serverEndTimes
       ELSE /\ pc' = "map"
            /\ sortedQueue' \in SortOutcomes(queueData)
            /\ serverEndTimes' = InitialServerEndTimes(numServers)
    /\ UNCHANGED <<op, args, ret, queueData, numServers, assigned, result,
                   now, round, first,
                   calls, pools>>

\* lines 262-276: one call of the map callback
MapItem ==
    /\ pc = "map"
    /\ LET k == Len(result) + 1
       IN  /\ serverEndTimes' = AfterEntry(queueData, sortedQueue, serverEndTimes, k)
           /\ assigned' = Append(assigned, ServerIndex(serverEndTimes))
           /\ result' = Append(result, Entry(queueData, sortedQueue, serverEndTimes, k))
           /\ pc' = IF k >= Len(sortedQueue) THEN "done" ELSE "map"
    /\ UNCHANGED <<op, args, ret, queueData, numServers, sortedQueue,
                   now, round, first,
                   calls, pools>>

Returns(value) ==
    /\ pc' = "done"
    /\ ret' = value
    /\ UNCHANGED <<op, args, queueData, numServers, sortedQueue,
                   serverEndTimes, assigned, result, now, round, first,
                   calls, pools>>

CallCalculateWaitTime ==
    /\ pc = "call"
    /\ op = "calculateWaitTime"
    /\ \E w \in WaitTimeOutcomes(args[1], args[2], args[3]) : Returns(w)

CallEstimateTimeUntilPosition ==
    /\ pc = "call"
    /\ op = "estimateTimeUntilPosition"
    /\ Returns(EstimateTimeUntilPosition(args[1], args[2], args[3]))

CallCalculateOptimalServers ==
    /\ pc = "call"
    /\ op = "calculateOptimalServers"
    /\ Returns(CalculateOptimalServers(args[1], args[2], args[3]))

CallCalculateNoShowProbability ==
    /\ pc = "call"
    /\ op = "calculateNoShowProbability"
    /\ Returns(CalculateNoShowProbability(args[1], args[2]))

CallAdjustForNoShowProbability ==
    /\ pc = "call"
    /\ op = "adjustForNoShowProbability"
    /\ Returns(AdjustForNoShowProbability(args[1], args[2], args[3], args[4]))

CallCalculateRecommendedLeaveTime ==
    /\ pc = "call"
    /\ op = "calculateRecommendedLeaveTime"
    /\ \E rn \in 0..(RandDen - 1) :
           Returns(CalculateRecommendedLeaveTime(args[1], args[2], args[3],
                                                 args[4], rn, now))

CallSortNotifications ==
    /\ pc = "call"
    /\ op = "sortNotifications"
    /\ pc' = "done"
    /\ ret' = SortNotifications(args[1], Len(args[1]))
    /\ args' = <<NotificationsAfterSort(args[1])>>
    /\ UNCHANGED <<op, queueData, numServers, sortedQueue, serverEndTimes,
                   assigned, result, now, round, first,
                   calls, pools>>

CallGroupNotifications ==
    /\ pc = "call"
    /\ op = "groupNotifications"
    /\ Returns(GroupNotifications(args[1], Len(args[1])))

Throws ==
    /\ pc' = "threw"
    /\ UNCHANGED <<op, args, ret, queueData, numServers, sortedQueue,
                   serverEndTimes, assigned, result, now, round, first,
                   calls, pools>>

\* the call ends as the completion c says
Completes(c) == IF c.threw THEN Throws ELSE Returns(c.value)

CallToMilliseconds ==
    /\ pc = "call"
    /\ op = "toMilliseconds"
    /\ Completes(ToMilliseconds(args[1], args[2]))

CallDateDiff ==
    /\ pc = "call"
    /\ op = "dateDiff"
    /\ Completes(DateDiff(args[1], args[2], args[3], now))

CallAddTime ==
    /\ pc = "call"
    /\ op = "addTime"
    /\ Completes(AddTime(args[1], args[2], args[3]))

CallSubtractTime ==
    /\ pc = "call"
    /\ op = "subtractTime"
    /\ Completes(SubtractTime(args[1], args[2], args[3]))

CallStartOf ==
    /\ pc = "call"
    /\ op = "startOf"
    /\ Completes(StartOf(args[1], args[2]))

CallEndOf ==
    /\ pc = "call"
    /\ op = "endOf"
    /\ Completes(EndOf(args[1], args[2]))

CallCreateYourTurnSoonNotification ==
    /\ pc = "call"
    /\ op = "createYourTurnSoonNotification"
    /\ Returns(CreateYourTurnSoonNotification(args[1], args[2], args[3]))

CallCreateYourTurnNowNotification ==
    /\ pc = "call"
    /\ op = "createYourTurnNowNotification"
    /\ Returns(CreateYourTurnNowNotification(args[1], args[2], now))

CallCreateQueueStatusNotification ==
    /\ pc = "call"
    /\ op = "createQueueStatusNotification"
    /\ Returns(CreateQueueStatusNotification(args[1], args[2], args[3],
                                             args[4], now))

CallCreateCustomNotification ==
    /\ pc = "call"
    /\ op = "createCustomNotification"
    /\ Returns(CreateCustomNotification(args[1], args[2], args[3], now))

CallFormatPosition ==
    /\ pc = "call"
    /\ op = "formatPosition"
    /\ Returns(FormatPosition(args[1]))

CallIsActiveStatus ==
    /\ pc = "call"
    /\ op = "isActiveStatus"
    /\ Returns(IsActiveStatus(args[1]))

CallIsCompletedStatus ==
    /\ pc = "call"
    /\ op = "isCompletedStatus"
    /\ Returns(IsCompletedStatus(args[1]))

CallCalculateNotificationTime ==
    /\ pc = "call"
    /\ op = "calculateNotificationTime"
    /\ Returns(CalculateNotificationTime(args[1], args[2], args[3], args[4]))

CallFormatDuration ==
    /\ pc = "call"
    /\ op = "formatDuration"
    /\ Returns(FormatDuration(args[1]))

CallParseDuration ==
    /\ pc = "call"
    /\ op = "parseDuration"
    /\ Returns(ParseDuration(args[1]))

CallGetBoundingBox ==
    /\ pc = "call"
    /\ op = "getBoundingBox"
    /\ Returns(GetBoundingBox(args[1], args[2], args[3]))

CallCalculateDestination ==
    /\ pc = "call"
    /\ op = "calculateDestination"
    /\ Returns(CalculateDestination(args[1], args[2], args[3], args[4]))

CallCalculateMidpoint ==
    /\ pc = "call"
    /\ op = "calculateMidpoint"
    /\ Returns(CalculateMidpoint(args[1], args[2]))

CallConvertDistance ==
    /\ pc = "call"
    /\ op = "convertDistance"
    /\ Returns(ConvertDistance(args[1], args[2], args[3]))

Next ==
    \/ CalculateCompletionTimes
    \/ MapItem
    \/ CallCalculateWaitTime
    \/ CallEstimateTimeUntilPosition
    \/ CallCalculateOptimalServers
    \/ CallCalculateNoShowProbability
    \/ CallAdjustForNoShowProbability
    \/ CallCalculateRecommendedLeaveTime
    \/ CallSortNotifications
    \/ CallGroupNotifications
    \/ CallToMilliseconds
    \/ CallDateDiff
    \/ CallAddTime
    \/ CallSubtractTime
    \/ CallStartOf
    \/ CallEndOf
    \/ CallCreateYourTurnSoonNotification
    \/ CallCreateYourTurnNowNotification
    \/ CallCreateQueueStatusNotification
    \/ CallCreateCustomNotification
    \/ CallFormatPosition
    \/ CallIsActiveStatus
    \/ CallIsCompletedStatus
    \/ CallCalculateNotificationTime
    \/ CallFormatDuration
    \/ CallParseDuration
    \/ CallGetBoundingBox
    \/ CallCalculateDestination
    \/ CallCalculateMidpoint
    \/ CallConvertDistance

Spec == Init /\ [][Next]_vars

(***************************************************************************)
(* The same invocation made a second time.  The caller passes the same     *)
(* arguments again; the clock has moved on by at most MaxElapsed           *)
(* milliseconds, and Math.random() draws again.                            *)
(***************************************************************************)

\* what the invocation returned
Outcome == IF op = "calculateCompletionTimes" THEN result ELSE ret

Again ==
    /\ pc = "done"
    /\ round = 1
    /\ Len(queueData) <= MaxRepeatedItems
    /\ round' = 2
    /\ first' = <<Outcome>>
    /\ now' \in now..(now + MaxElapsed)
    /\ pc' = "call"
    /\ ret' = 0
    /\ sortedQueue' = <<>>
    /\ serverEndTimes' = <<>>
    /\ assigned' = <<>>
    /\ result' = <<>>
    /\ UNCHANGED <<op, args, queueData, numServers, calls, pools>>

NextTwice ==
    \/ Next
    \/ Again

SpecTwice == Init /\ [][NextTwice]_vars

(***************************************************************************)
(* Two invocations of calculateCompletionTimes running at once, the steps  *)
(* of one (its prologue, then one map callback per item) interleaved in    *)
(* any way with the steps of the other.                                    *)
(***************************************************************************)

\* PoolOf when serverEndTimes is one array shared by all invocations
PoolOfShared(i) == 1

\* line 260: const serverEndTimes is an array the invocation creates for
\* itself
PoolOf(i) == i

ConcurrentItems == [serviceTime : {1, 2}, hasPosition : {FALSE}, position : {0}]

ConcurrentInvocations ==
    [queueData   : UNION {[1..n -> ConcurrentItems] : n \in 0..MaxConcurrentItems},
     numServers  : {1, 2},
     pc          : {"call"},
     sortedQueue : {<<>>},
     result      : {<<>>},
     interleaved : {FALSE}]

InitConcurrent ==
    /\ pc = "concurrent"
    /\ op = "calculateCompletionTimes"
    /\ args = <<>>
    /\ ret = 0
    /\ queueData = <<>>
    /\ numServers = 1
    /\ sortedQueue = <<>>
    /\ serverEndTimes = <<>>
    /\ assigned = <<>>
    /\ result = <<>>
    /\ now = 0
    /\ round = 1
    /\ first = <<>>
    /\ calls \in ConcurrentInvocations \X ConcurrentInvocations
    /\ pools = <<<<>>, <<>>>>

\* another invocation is between two of its map callbacks
OtherInMap(i) == \E j \in DOMAIN calls : j # i /\ calls[j].pc = "map"

\* lines 248-260 in invocation i
ConcurrentPrologue(i) ==
    /\ calls[i].pc = "call"
    /\ IF IsEmptyInput(calls[i].queueData)
       THEN /\ calls' = [calls EXCEPT ![i].pc = "done"]
            /\ UNCHANGED pools
       ELSE /\ \E sorted \in SortOutcomes(calls[i].queueData) :
                   calls' = [calls EXCEPT ![i].pc = "map",
                                          ![i].sortedQueue = sorted,
                                          ![i].interleaved = OtherInMap(i)]
            /\ pools' = [pools EXCEPT
                            ![PoolOf(i)] = InitialServerEndTimes(calls[i].numServers)]
    /\ UNCHANGED <<pc, op, args, ret, queueData, numServers, sortedQueue,
                   serverEndTimes, assigned, result, now, round, first>>

\* lines 262-276: one call of the map callback in invocation i
ConcurrentMapItem(i) ==
    /\ calls[i].pc = "map"
    /\ LET c    == calls[i]
           ends == pools[PoolOf(i)]
           k    == Len(c.result) + 1
       IN  /\ calls' = [calls EXCEPT
                  ![i].result = Append(c.result,
                                       Entry(c.queueData, c.sortedQueue, ends, k)),
                  ![i].pc = IF k >= Len(c.sortedQueue) THEN "done" ELSE "map",
                  ![i].interleaved = c.interleaved \/ OtherInMap(i)]
           /\ pools' = [pools EXCEPT
                  ![PoolOf(i)] = AfterEntry(c.queueData, c.sortedQueue, ends, k)]
    /\ UNCHANGED <<pc, op, args, ret, queueData, numServers, sortedQueue,
                   serverEndTimes, assigned, result, now, round, first>>

NextConcurrent ==
    \/ \E i \in DOMAIN calls : ConcurrentPrologue(i)
    \/ \E i \in DOMAIN calls : ConcurrentMapItem(i)

SpecConcurrent == InitConcurrent /\ [][NextConcurrent]_vars

(***************************************************************************)
(* Properties of calculateCompletionTimes.                                 *)
(***************************************************************************)
Done(method) == pc = "done" /\ op = method

Scheduling == op = "calculateCompletionTimes"

NonNegativeServiceTimes ==
    \A i \in 1..Len(queueData) : queueData[i].serviceTime >= 0

NoPositions == \A i \in 1..Len(queueData) : ~queueData[i].hasPosition

AllPositions == \A i \in 1..Len(queueData) : queueData[i].hasPosition

\* the entries whose interval [startTime, endTime) contains the instant t
OpenAt(t) ==
    {i \in 1..Len(result) : result[i].startTime <= t /\ t < result[i].endTime}

\* C1: with serviceTime >= 0 and numServers >= 1 the intervals
\* [startTime, endTime) never exceed the pool capacity: at every instant at
\* most numServers of them are open (the number of open intervals only grows
\* at a startTime, so those are the instants to look at), and two items given
\* to the same server never overlap.
C1_PoolCapacity ==
    (Scheduling /\ NonNegativeServiceTimes /\ numServers >= 1) =>
        /\ \A i \in 1..Len(result) :
               Cardinality(OpenAt(result[i].startTime)) <= numServers
        /\ \A i, j \in 1..Len(result) :
               (i < j /\ assigned[i] = assigned[j]) =>
                   \/ result[i].endTime <= result[j].startTime
                   \/ result[j].endTime <= result[i].startTime

\* C1 witness: more items than servers, all with a positive service time, and
\* an instant at which the whole pool of two or more servers is busy
C1_Witness ==
    /\ Done("calculateCompletionTimes")
    /\ numServers >= 2
    /\ Len(result) > numServers
    /\ \A i \in 1..Len(queueData) : queueData[i].serviceTime > 0
    /\ \E i \in 1..Len(result) :
           Cardinality(OpenAt(result[i].startTime)) = numServers

\* C2: with one server and no position fields the result is the input order
\* as back-to-back intervals: the first starts at 0, every later one starts
\* at the previous endTime, and endTime = startTime + serviceTime.
C2_SingleServerBackToBack ==
    (Done("calculateCompletionTimes") /\ numServers = 1 /\ NoPositions) =>
        /\ Len(result) = Len(queueData)
        /\ \A i \in 1..Len(result) :
               /\ result[i].item = i
               /\ result[i].startTime = IF i = 1 THEN 0 ELSE result[i - 1].endTime
               /\ result[i].endTime = result[i].startTime + queueData[i].serviceTime

\* C2 witness: three items of positive service time on one server
C2_Witness ==
    /\ Done("calculateCompletionTimes")
    /\ numServers = 1
    /\ NoPositions
    /\ Len(result) >= 3
    /\ \A i \in 1..3 : queueData[i].serviceTime > 0
    /\ result[3].startTime = queueData[1].serviceTime + queueData[2].serviceTime
    /\ result[3].endTime > result[3].startTime

\* C3: items are processed in input order when none carries a position, and
\* in ascending position order when all do, equal positions keeping their
\* input order; the output is in that processing order.
C3_ProcessingOrder ==
    Done("calculateCompletionTimes") =>
        /\ \A i \in 1..Len(result) : result[i].item = sortedQueue[i]
        /\ NoPositions => \A i \in 1..Len(result) : result[i].item = i
        /\ AllPositions =>
               \A i, j \in 1..Len(result) :
                   i < j =>
                       LET a == queueData[result[i].item]
                           b == queueData[result[j].item]
                       IN  /\ a.position <= b.position
                           /\ a.position = b.position => result[i].item < result[j].item

\* C3 witness: every item has a position, the input is out of order and two
\* items share a position
C3_Witness ==
    /\ Done("calculateCompletionTimes")
    /\ AllPositions
    /\ Len(result) >= 3
    /\ queueData[1].position > queueData[2].position
    /\ queueData[1].position = queueData[3].position
    /\ result[1].item = 2

\* C4: one assignment per input item: the result is as long as the input,
\* every input item is in exactly one entry, and an empty input returns an
\* empty result straight away.
C4_OneAssignmentPerItem ==
    /\ Done("calculateCompletionTimes") =>
           /\ Len(result) = Len(queueData)
           /\ \A n \in 1..Len(queueData) :
                  Cardinality({i \in 1..Len(result) : result[i].item = n}) = 1
    /\ (Scheduling /\ Len(queueData) = 0) => (pc # "map" /\ result = <<>>)
    /\ (Scheduling /\ pc = "map") => Len(result) < Len(queueData)

\* C4 witness: a full-length queue whose order the sort changed
C4_Witness ==
    /\ Done("calculateCompletionTimes")
    /\ Len(queueData) >= 3
    /\ result[1].item # 1

(***************************************************************************)
(* Properties of calculateOptimalServers.                                  *)
(***************************************************************************)

\* queueLength items of one service time and no position field
UniformQueue(queueLength, serviceTime) ==
    [i \in 1..queueLength |->
        [serviceTime |-> serviceTime, hasPosition |-> FALSE, position |-> 0]]

\* every result calculateCompletionTimes(q, n) can return
CompletionTimesOutcomes(q, n) ==
    IF IsEmptyInput(q)
    THEN {<<>>}
    ELSE {MapItems(q, sorted, InitialServerEndTimes(n), 1) : sorted \in SortOutcomes(q)}

\* on s servers every one of queueLength items of serviceTime an starts
\* within the target tn
HitsTarget(queueLength, an, tn, s) ==
    \A r \in CompletionTimesOutcomes(UniformQueue(queueLength, an), s) :
        /\ Len(r) = queueLength
        /\ \A i \in 1..Len(r) : r[i].startTime <= tn

PositiveServerArgs == args[1] >= 1 /\ args[2] > 0 /\ args[3] > 0

\* C5 (as stated): for queueLength >= 1, averageServiceTime > 0 and
\* targetWaitTime > 0 the returned count hits the target wait time on
\* calculateCompletionTimes and no smaller positive count does.
C5_MinimumServerCount ==
    (Done("calculateOptimalServers") /\ PositiveServerArgs) =>
        /\ ret >= 1
        /\ HitsTarget(args[1], args[2], args[3], ret)
        /\ \A s \in 1..(ret - 1) : ~HitsTarget(args[1], args[2], args[3], s)

\* C5 (amended): for queueLength >= 1, averageServiceTime > 0 and
\* targetWaitTime > 0 the returned count s >= 1 hits the target wait time:
\* on s servers every item starts at or before targetWaitTime.  It need not
\* be the least such count.
C5_ServerCountHitsTarget ==
    (Done("calculateOptimalServers") /\ PositiveServerArgs) =>
        /\ ret >= 1
        /\ HitsTarget(args[1], args[2], args[3], ret)

\* C5 witness: a call that asks for several servers although one server
\* fewer already hits the target
C5_Witness ==
    /\ Done("calculateOptimalServers")
    /\ PositiveServerArgs
    /\ ret >= 2
    /\ HitsTarget(args[1], args[2], args[3], ret - 1)
    /\ ~HitsTarget(args[1], args[2], args[3], 1)

\* C6: the result is ceil(queueLength * averageServiceTime / targetWaitTime)
\* raised to at least 1 (the least integer k with k * target >= length *
\* service), always an integer >= 1, and exactly 1 whenever one of the three
\* arguments is non-positive.
C6_CeilingAtLeastOne ==
    Done("calculateOptimalServers") =>
        /\ ret >= 1
        /\ (args[1] <= 0 \/ args[2] <= 0 \/ args[3] <= 0) => ret = 1
        /\ (args[1] > 0 /\ args[2] > 0 /\ args[3] > 0) =>
               /\ ret * args[3] >= args[1] * args[2]
               /\ (ret - 1) * args[3] < args[1] * args[2]

\* C6 witness: positive arguments whose quotient is not an integer and is
\* above 1
C6_Witness ==
    /\ Done("calculateOptimalServers")
    /\ args[1] > 0 /\ args[2] > 0 /\ args[3] > 0
    /\ (args[1] * args[2]) % args[3] # 0
    /\ ret >= 2

(***************************************************************************)
(* Properties of calculateWaitTime.                                        *)
(***************************************************************************)

\* C7: for integer position >= 0 and integer serviceTime > 0 the call with
\* varianceServiceTime = 0 returns position * serviceTime exactly.
C7_NoVarianceIsExact ==
    ( /\ Done("calculateWaitTime")
      /\ args[1] >= 0
      /\ args[2] > 0 /\ args[2] % TimeDen = 0
      /\ args[3] = 0 ) =>
        ret * TimeDen = args[1] * args[2]

\* C7 witness: position 2 or more, a whole positive number of seconds, no
\* variance
C7_Witness ==
    /\ Done("calculateWaitTime")
    /\ args[1] >= 2
    /\ args[2] > 0 /\ args[2] % TimeDen = 0
    /\ args[3] = 0
    /\ ret >= 2

\* C8: the result is never negative, whatever the variance; for position >=
\* 0, averageServiceTime >= 0 and a variance v in (0, 1] it lies between
\* round(position * service * (1 - v)) and round(position * service * (1 + v)).
C8_VarianceRange ==
    Done("calculateWaitTime") =>
        /\ ret >= 0
        /\ (args[1] >= 0 /\ args[2] >= 0 /\ args[3] > 0 /\ args[3] <= VarDen) =>
               /\ ret >= Round(args[1] * args[2] * (VarDen - args[3]), TimeDen * VarDen)
               /\ ret <= Round(args[1] * args[2] * (VarDen + args[3]), TimeDen * VarDen)

\* C8 witness: a variance in (0, 1) and a draw that shortened a positive wait
C8_Witness ==
    /\ Done("calculateWaitTime")
    /\ args[1] > 0 /\ args[2] > 0
    /\ args[3] > 0 /\ args[3] < VarDen
    /\ ret > 0
    /\ ret * TimeDen < args[1] * args[2]

(***************************************************************************)
(* Properties of estimateTimeUntilPosition and calculateNoShowProbability. *)
(***************************************************************************)

\* C9: 0 when currentPosition <= 0, targetPosition <= 0 or targetPosition >
\* currentPosition; otherwise (currentPosition - targetPosition) *
\* averageServiceTime rounded to the nearest integer (a half rounds up).
C9_TimeUntilPosition ==
    Done("estimateTimeUntilPosition") =>
        IF args[1] <= 0 \/ args[2] <= 0 \/ args[2] > args[1]
        THEN ret = 0
        ELSE LET exact == (args[1] - args[2]) * args[3]    \* over TimeDen
             IN  /\ 2 * (ret * TimeDen - exact) <= TimeDen
                 /\ 2 * (ret * TimeDen - exact) > -TimeDen

\* C9 witness: a target ahead of the current position and a product that is
\* not a whole number of seconds
C9_Witness ==
    /\ Done("estimateTimeUntilPosition")
    /\ args[2] >= 1 /\ args[1] > args[2]
    /\ args[3] > 0
    /\ ((args[1] - args[2]) * args[3]) % TimeDen # 0
    /\ ret >= 1

\* C10: the probability is in [0, 1]: totalNoShows / totalEntries clamped to
\* [0, 1] when totalEntries > 0, and 0 when totalEntries <= 0.
C10_NoShowProbabilityRange ==
    Done("calculateNoShowProbability") =>
        /\ ret.den > 0
        /\ 0 <= ret.num /\ ret.num <= ret.den
        /\ args[2] <= 0 => ret.num = 0
        /\ (args[2] > 0 /\ args[1] < 0) => ret.num = 0
        /\ (args[2] > 0 /\ args[1] > args[2]) => ret.num = ret.den
        /\ (args[2] > 0 /\ args[1] >= 0 /\ args[1] <= args[2]) =>
               ret.num * args[2] = args[1] * ret.den

\* C10 witness: more no-shows than entries, clamped to 1
C10_Witness ==
    /\ Done("calculateNoShowProbability")
    /\ args[2] > 0
    /\ args[1] > args[2]
    /\ ret.num = ret.den

(***************************************************************************)
(* Properties of adjustForNoShowProbability.                               *)
(***************************************************************************)

\* args = <<estimate, pn, pd, position>> with 0 <= estimate and 0 <= pn/pd <= 1
ProbabilityArgs == args[1] >= 0 /\ args[2] >= 0 /\ args[2] <= args[3]

\* the call returned its estimate unchanged
ReturnsEstimate == ret.num * TimeDen = args[1] * ret.den

\* C11 (as stated): for estimatedWaitTime >= 0 and noShowProbability in
\* [0, 1] the result is never above the estimate and never negative, and it
\* is the estimate itself when noShowProbability <= 0 or position <= 0.
C11_NeverIncreases ==
    Done("adjustForNoShowProbability") =>
        /\ ProbabilityArgs =>
               /\ ret.num >= 0
               /\ ret.num * TimeDen <= args[1] * ret.den
        /\ (args[2] <= 0 \/ args[4] <= 0) => ReturnsEstimate

\* C11 (amended): for an integer estimatedWaitTime >= 0 and
\* noShowProbability in [0, 1] the result is never above the estimate and
\* never negative; for any estimatedWaitTime >= 0 it is never negative and
\* less than half a second above the estimate; and it is the estimate itself
\* when noShowProbability <= 0 or position <= 0.
C11_NeverIncreasesWholeSeconds ==
    Done("adjustForNoShowProbability") =>
        /\ ProbabilityArgs =>
               /\ ret.num >= 0
               /\ args[1] % TimeDen = 0 => ret.num * TimeDen <= args[1] * ret.den
               /\ 2 * (ret.num * TimeDen - args[1] * ret.den) <= TimeDen * ret.den
        /\ (args[2] <= 0 \/ args[4] <= 0) => ReturnsEstimate

\* C11 witness: a whole number of seconds that a positive probability at a
\* positive position made strictly shorter
C11_Witness ==
    /\ Done("adjustForNoShowProbability")
    /\ ProbabilityArgs
    /\ args[1] > 0 /\ args[1] % TimeDen = 0
    /\ args[2] > 0 /\ args[4] > 0
    /\ ret.num > 0
    /\ ret.num * TimeDen < args[1] * ret.den

(***************************************************************************)
(* Properties of calculateRecommendedLeaveTime.                            *)
(***************************************************************************)

\* the options object of the call, and whether it leaves every field out
LeaveOptions == args[4]

DefaultBufferOptions ==
    /\ LeaveOptions.bufferTime = <<>>
    /\ LeaveOptions.minBufferTime = <<>>
    /\ LeaveOptions.maxBufferTime = <<>>

\* C12: the returned bufferTime is round(estimatedWaitTime * bufferFraction)
\* when that lies in [minBufferTime, maxBufferTime], minBufferTime when it is
\* below and maxBufferTime when it is above; with the default options it is
\* between 300 and 1800 seconds.
C12_BufferClamped ==
    Done("calculateRecommendedLeaveTime") =>
        LET fraction == IF LeaveOptions.bufferTime = <<>>
                        THEN [num |-> 1, den |-> 5]
                        ELSE LeaveOptions.bufferTime[1]
            lo == IF LeaveOptions.minBufferTime = <<>>
                  THEN 300 ELSE LeaveOptions.minBufferTime[1]
            hi == IF LeaveOptions.maxBufferTime = <<>>
                  THEN 1800 ELSE LeaveOptions.maxBufferTime[1]
            \* twice the distance from estimatedWaitTime * fraction to b
            offBy(b) == 2 * (b * fraction.den - ret.estimatedWaitTime * fraction.num)
            \* b is the integer nearest to the product, halves going up
            isRound(b) == offBy(b) <= fraction.den /\ offBy(b) > -fraction.den
        IN  /\ lo <= hi =>
                /\ lo <= ret.bufferTime /\ ret.bufferTime <= hi
                /\ \/ isRound(ret.bufferTime)
                   \/ ret.bufferTime = lo /\ offBy(lo) > fraction.den
                   \/ ret.bufferTime = hi /\ offBy(hi) <= -fraction.den
            /\ DefaultBufferOptions =>
                   300 <= ret.bufferTime /\ ret.bufferTime <= 1800

\* C12 witness: default options and a buffer strictly inside the range, so
\* neither clamp decided it
C12_Witness ==
    /\ Done("calculateRecommendedLeaveTime")
    /\ DefaultBufferOptions
    /\ 300 < ret.bufferTime /\ ret.bufferTime < 1800

\* C13: recommendedLeaveIn is max(0, estimatedWaitTime - travelTime -
\* bufferTime) of the returned fields, it is never negative, and leaveAt is
\* never earlier than the currentTime supplied.
C13_LeaveInNeverNegative ==
    Done("calculateRecommendedLeaveTime") =>
        LET slack == ret.estimatedWaitTime * TimeDen - ret.travelTime
                         - ret.bufferTime * TimeDen
        IN  /\ ret.recommendedLeaveIn = (IF slack > 0 THEN slack ELSE 0)
            /\ ret.recommendedLeaveIn >= 0
            /\ LeaveOptions.currentTime # <<>> =>
                   ret.leaveAt >= LeaveOptions.currentTime[1]
            /\ LeaveOptions.currentTime = <<>> => ret.leaveAt >= now

\* C13 witness: travel and buffer exceed the wait, so the floor at zero acts
\* and leaveAt is the supplied currentTime
C13_Witness ==
    /\ Done("calculateRecommendedLeaveTime")
    /\ LeaveOptions.currentTime # <<>>
    /\ ret.estimatedWaitTime > 0
    /\ ret.estimatedWaitTime * TimeDen - ret.travelTime
           - ret.bufferTime * TimeDen < 0
    /\ ret.recommendedLeaveIn = 0
    /\ ret.leaveAt = LeaveOptions.currentTime[1]

\* C14: confidence is "high" for position <= 10, "medium" for 11..20 and
\* "low" above 20, whatever the other arguments and the random draw.
C14_ConfidenceByPosition ==
    Done("calculateRecommendedLeaveTime") =>
        /\ args[1] <= 10 => ret.confidence = "high"
        /\ (11 <= args[1] /\ args[1] <= 20) => ret.confidence = "medium"
        /\ args[1] > 20 => ret.confidence = "low"

\* C14 witness: position 20 with a variance drawn, still "medium"
C14_Witness ==
    /\ Done("calculateRecommendedLeaveTime")
    /\ args[1] = 20
    /\ LeaveOptions.varianceServiceTime = <<>>
    /\ ret.estimatedWaitTime # Round(args[1] * args[2], TimeDen)
    /\ ret.confidence = "medium"

(***************************************************************************)
(* Properties of sortNotifications and groupNotifications.                 *)
(***************************************************************************)

\* C18: no step of calculateCompletionTimes, sortNotifications or
\* groupNotifications changes the array the caller passed in.
C18_InputArrayUnchanged ==
    [][(op \in {"calculateCompletionTimes", "sortNotifications",
                "groupNotifications"})
           => (queueData' = queueData /\ args' = args)]_vars

\* C18 witness: sortNotifications returned an order other than the input's,
\* and calculateCompletionTimes's sorted copy is out of input order too
C18_Witness ==
    \/ /\ Done("sortNotifications")
       /\ \E i \in 1..Len(ret) : ret[i] # i
    \/ /\ Done("calculateCompletionTimes")
       /\ \E i \in 1..Len(sortedQueue) : sortedQueue[i] # i

\* the place of a notification's priority in the order max, high, default
Rank(notification) ==
    IF notification.priority = <<"max">> THEN 1
    ELSE IF notification.priority = <<"high">> THEN 2
    ELSE 3

\* the time a notification is sorted by
SortTime(notification) ==
    IF notification.timestamp = <<>> THEN 0 ELSE notification.timestamp[1]

\* C20: sortNotifications returns a permutation of its input ordered by
\* priority (max, high, default; missing is default), then by descending
\* data.timestamp (missing is 0); equal notifications keep their input order.
C20_SortedByPriorityThenNewest ==
    Done("sortNotifications") =>
        LET notifications == args[1]
            n == Len(notifications)
        IN  /\ Len(ret) = n
            /\ \A k \in 1..n : \E i \in 1..n : ret[i] = k
            /\ \A i, j \in 1..n :
                   i < j =>
                       LET a == notifications[ret[i]]
                           b == notifications[ret[j]]
                       IN  \/ Rank(a) < Rank(b)
                           \/ /\ Rank(a) = Rank(b)
                              /\ SortTime(a) > SortTime(b)
                           \/ /\ Rank(a) = Rank(b)
                              /\ SortTime(a) = SortTime(b)
                              /\ ret[i] < ret[j]

\* C20 witness: an array that sorting reorders by priority and by timestamp,
\* with two equal notifications, one without priority and one without
\* timestamp
C20_Witness ==
    /\ Done("sortNotifications")
    /\ Len(ret) = MaxNotifications
    /\ \E i, j \in 1..Len(ret) :
           /\ i < j /\ ret[i] > ret[j]
           /\ Rank(args[1][ret[i]]) < Rank(args[1][ret[j]])
    /\ \E i, j \in 1..Len(ret) :
           /\ i < j
           /\ Rank(args[1][ret[i]]) = Rank(args[1][ret[j]])
           /\ SortTime(args[1][ret[i]]) = SortTime(args[1][ret[j]])
           /\ args[1][ret[i]].priority = <<>>
           /\ args[1][ret[j]].timestamp = <<>>

(***************************************************************************)
(* Failures.                                                               *)
(***************************************************************************)

\* the call names a unit its operation does not support
UnsupportedUnit ==
    \/ op = "toMilliseconds" /\ args[2] \notin TimeUnits
    \/ op \in {"dateDiff", "addTime", "subtractTime"} /\ args[3] \notin TimeUnits
    \/ op \in {"startOf", "endOf"} /\ args[2] \notin Periods

\* C19: an operation fails exactly when it is given an unsupported unit: a
\* call that throws had one, and a call with one never returns a value.
C19_OnlyUnsupportedUnitsFail ==
    /\ pc = "threw" => UnsupportedUnit
    /\ pc = "done" => ~UnsupportedUnit

(***************************************************************************)
(* Determinism: properties of an invocation and its repetition.            *)
(***************************************************************************)

\* both invocations have returned
Repeated == pc = "done" /\ round = 2

\* the call draws a variance: its varianceServiceTime is positive
DrawsVariance ==
    \/ op = "calculateWaitTime" /\ args[3] > 0
    \/ /\ op = "calculateRecommendedLeaveTime"
       /\ args[4].varianceServiceTime # <<[num |-> 0, den |-> 1]>>

\* C15: two invocations with identical explicit arguments return identical
\* outputs, unless the call draws a variance.
C15_SameArgumentsSameOutput ==
    (Repeated /\ ~DrawsVariance) => Outcome = first[1]

\* C16: two invocations of calculateWaitTime, or of
\* calculateRecommendedLeaveTime, with the same arguments return the same
\* wait time: there is no draw the caller did not supply.
C16_SameSourceSameWaitTime ==
    /\ (Repeated /\ op = "calculateWaitTime") => ret = first[1]
    /\ (Repeated /\ op = "calculateRecommendedLeaveTime") =>
           ret.estimatedWaitTime = first[1].estimatedWaitTime

(***************************************************************************)
(* Concurrent invocations.                                                 *)
(***************************************************************************)

\* C17: an invocation of calculateCompletionTimes whose steps were
\* interleaved with another's returns a result it can return when run alone.
C17_InterleavedAsAlone ==
    \A i \in DOMAIN calls :
        calls[i].pc = "done" =>
            calls[i].result \in CompletionTimesOutcomes(calls[i].queueData,
                                                       calls[i].numServers)

\* C17 witness: both invocations returned, each took steps while the other
\* was between two of its map callbacks, and their results differ
C17_Witness ==
    /\ DOMAIN calls = {1, 2}
    /\ \A i \in DOMAIN calls :
           /\ calls[i].pc = "done"
           /\ calls[i].interleaved
           /\ Len(calls[i].result) = MaxConcurrentItems
    /\ calls[1].result # calls[2].result

(***************************************************************************)
(* Properties of formatPosition and of the status predicates.              *)
(***************************************************************************)

\* the ordinal suffix English gives the positive integer n
OrdinalSuffix(n) ==
    LET units == n - 10 * (n \div 10)
        teens == n - 100 * (n \div 100)
    IN  IF teens \in {11, 12, 13} THEN "th"
        ELSE IF units = 1 THEN "st"
        ELSE IF units = 2 THEN "nd"
        ELSE IF units = 3 THEN "rd"
        ELSE "th"

\* C22: formatPosition returns 'Next' for position <= 0 and otherwise the
\* number followed by 'th' when its last two digits are 11, 12 or 13, else
\* by 'st', 'nd', 'rd' for last digit 1, 2, 3 and by 'th' for any other.
C22_OrdinalSuffix ==
    Done("formatPosition") =>
        IF args[1] <= 0
        THEN ret = <<"Next">>
        ELSE ret = <<args[1], OrdinalSuffix(args[1])>>

\* C22 witness: a position above 100 ending in 11, 12 or 13, formatted 'th'
C22_Witness ==
    /\ Done("formatPosition")
    /\ args[1] > 100
    /\ args[1] % 10 \in {1, 2, 3}
    /\ ret = <<args[1], "th">>

\* C30: each queue-entry status satisfies exactly one of isActiveStatus and
\* isCompletedStatus: WAITING and CALLED are active, SERVED, NOSHOW and
\* CANCELLED are completed.
C30_StatusPartition ==
    /\ Done("isActiveStatus") =>
           /\ ret = (args[1] \in {"WAITING", "CALLED"})
           /\ ret = ~IsCompletedStatus(args[1])
    /\ Done("isCompletedStatus") =>
           /\ ret = (args[1] \in {"SERVED", "NOSHOW", "CANCELLED"})
           /\ ret = ~IsActiveStatus(args[1])

\* C30 witness: CALLED was asked about and is not completed
C30_Witness ==
    /\ Done("isCompletedStatus")
    /\ args[1] = "CALLED"
    /\ ret = FALSE

(***************************************************************************)
(* Properties of calculateNotificationTime.                                *)
(***************************************************************************)

\* the notificationOffset of the call, in units of 1/TimeDen second
OffsetUnits == (IF args[4] = <<>> THEN 300 ELSE args[4][1]) * TimeDen

\* C24: calculateNotificationTime returns max(0, currentPosition *
\* averageServiceTime - travelTime - notificationOffset), the offset being
\* 300 seconds by default; the result is never negative and is 0 whenever
\* travel time plus offset is at least the unvaried wait estimate.
C24_NotificationTimeFloored ==
    Done("calculateNotificationTime") =>
        LET lead == args[1] * args[2] - args[3] - OffsetUnits
        IN  /\ ret = (IF lead > 0 THEN lead ELSE 0)
            /\ ret >= 0
            /\ args[3] + OffsetUnits >= args[1] * args[2] => ret = 0

\* C24 witness: with the default offset, a positive estimate smaller than
\* travel time plus offset gives 0
C24_Witness ==
    /\ Done("calculateNotificationTime")
    /\ args[4] = <<>>
    /\ args[1] * args[2] > 0
    /\ args[3] > 0
    /\ args[1] * args[2] < args[3] + 300 * TimeDen
    /\ ret = 0

\* calculateRecommendedLeaveTime with the position, service time and travel
\* time of the call, varianceServiceTime = 0 and the default buffer options
LeaveTimeOfCall ==
    CalculateRecommendedLeaveTime(
        args[1], args[2], args[3],
        [varianceServiceTime |-> <<[num |-> 0, den |-> 1]>>,
         bufferTime |-> <<>>, minBufferTime |-> <<>>, maxBufferTime |-> <<>>,
         currentTime |-> <<>>],
        0, now)

\* the notification offset is at least recommendedLeaveIn, and equal to it
\* exactly when the buffer is 300 seconds or both are 0
LeaveInAtMostNotificationTime ==
    /\ ret >= LeaveTimeOfCall.recommendedLeaveIn
    /\ ret = LeaveTimeOfCall.recommendedLeaveIn
           <=> \/ LeaveTimeOfCall.bufferTime = 300
               \/ ret = 0 /\ LeaveTimeOfCall.recommendedLeaveIn = 0

\* C26 (as stated): for the same position, averageServiceTime and travelTime,
\* with varianceServiceTime = 0 and the default buffer options and offset,
\* calculateNotificationTime is never smaller than recommendedLeaveIn, and
\* equal to it exactly when the buffer is 300 seconds or both are 0.
C26_NotificationNotAfterLeave ==
    (Done("calculateNotificationTime") /\ args[4] = <<>>)
        => LeaveInAtMostNotificationTime

\* C26 (amended): the same, when position * averageServiceTime is a whole,
\* non-negative number of seconds.
C26_NotificationNotAfterLeaveWholeSeconds ==
    (/\ Done("calculateNotificationTime")
     /\ args[4] = <<>>
     /\ args[1] * args[2] >= 0
     /\ (args[1] * args[2]) % TimeDen = 0)
        => LeaveInAtMostNotificationTime

\* C26 witness: a long wait whose buffer is above 300 seconds, so that the
\* notification offset is strictly larger than a positive recommendedLeaveIn
C26_Witness ==
    /\ Done("calculateNotificationTime")
    /\ args[4] = <<>>
    /\ (args[1] * args[2]) % TimeDen = 0
    /\ LeaveTimeOfCall.bufferTime > 300
    /\ LeaveTimeOfCall.recommendedLeaveIn > 0
    /\ ret > LeaveTimeOfCall.recommendedLeaveIn

(***************************************************************************)
(* The greedy assignment of calculateCompletionTimes, step by step.        *)
(***************************************************************************)

\* C23: for numServers >= 1 the next-free times start at 0, and each step of
\* the map takes as startTime the least next-free time, chooses the
\* lowest-indexed server holding it, sets endTime = startTime + serviceTime
\* and changes only the chosen server's next-free time, to endTime.
C23_GreedyStep ==
    [][(pc = "map" /\ numServers >= 1) =>
        LET entry  == result'[Len(result')]
            chosen == assigned'[Len(assigned')]
        IN  /\ Len(serverEndTimes) = numServers
            /\ result = <<>> => \A j \in 1..numServers : serverEndTimes[j] = 0
            /\ Len(result') = Len(result) + 1
            /\ \A j \in 1..numServers : entry.startTime <= serverEndTimes[j]
            /\ serverEndTimes[chosen] = entry.startTime
            /\ \A j \in 1..(chosen - 1) : serverEndTimes[j] > entry.startTime
            /\ entry.endTime = entry.startTime + queueData[entry.item].serviceTime
            /\ Len(serverEndTimes') = numServers
            /\ serverEndTimes'[chosen] = entry.endTime
            /\ \A j \in 1..numServers :
                   j # chosen => serverEndTimes'[j] = serverEndTimes[j]
      ]_vars

\* C23 witness: two servers, three items; the first takes server 1 on a tie,
\* the second takes server 2, and the third starts later than 0
C23_Witness ==
    /\ Done("calculateCompletionTimes")
    /\ numServers = 2
    /\ Len(result) = 3
    /\ assigned[1] = 1
    /\ assigned[2] = 2
    /\ result[3].startTime > 0
    /\ serverEndTimes[1] # serverEndTimes[2]

\* C25: for numServers >= 1 and service times >= 0, the startTime values of
\* the returned sequence are non-decreasing.
C25_StartTimesNonDecreasing ==
    (op = "calculateCompletionTimes" /\ numServers >= 1) =>
        \A i \in 1..Len(result) : \A j \in i..Len(result) :
            result[i].startTime <= result[j].startTime

\* C25 witness: a returned sequence of three entries on one server whose
\* start times strictly increase
C25_Witness ==
    /\ Done("calculateCompletionTimes")
    /\ numServers = 1
    /\ Len(result) = 3
    /\ result[1].startTime < result[2].startTime
    /\ result[2].startTime < result[3].startTime

(***************************************************************************)
(* Calendar periods.                                                       *)
(***************************************************************************)

\* a is not later than b
NotLater(a, b) == a.day < b.day \/ (a.day = b.day /\ a.ms <= b.ms)

\* C28: for every date d and every period unit, endOf(d, unit) is the last
\* millisecond of the period containing d: startOf(d, unit) <= d <=
\* endOf(d, unit), and startOf(endOf(d, unit), unit) = startOf(d, unit).
C28_EndOfClosesPeriod ==
    (Done("endOf") /\ args[2] \in Periods) =>
        LET d     == args[1]
            start == StartOf(d, args[2]).value
        IN  /\ NotLater(start, d)
            /\ NotLater(d, ret)
            /\ StartOf(ret, args[2]).value = start

\* the same for the units year and month alone
YearAndMonthClosePeriod ==
    (Done("endOf") /\ args[2] \in {"year", "month"}) =>
        LET d     == args[1]
            start == StartOf(d, args[2]).value
        IN  /\ NotLater(start, d)
            /\ NotLater(d, ret)
            /\ StartOf(ret, args[2]).value = start
            /\ StartOf(AddMilliseconds(ret, 1), args[2]).value # start

(***************************************************************************)
(* Durations as text.                                                      *)
(***************************************************************************)

\* C27: for every integer ms >= 0, parsing the text formatDuration gives for
\* ms yields a value no larger than ms.
C27_RoundTripNotLarger ==
    Done("formatDuration") => ParseDuration(ret) <= args[1]

\* the same for 0 and for durations of a second or more
RoundTripNotLargerFromOneSecond ==
    (Done("formatDuration") /\ (args[1] = 0 \/ args[1] >= 1000))
        => /\ ParseDuration(ret) <= args[1]
           /\ ParseDuration(ret) >= 0

\* parseDuration reads the examples as written
ParseDurationExamples ==
    Done("parseDuration") =>
        /\ args[1] = <<"2", "h", " ", "3", "0", "m">> => ret = 9000000
        /\ args[1] = <<"1", "w", " ", "2", "d">> => ret = 777600000
        /\ args[1] = <<"a", "b", "c">> => ret = 0
        /\ args[1] = <<"1", "5", " ", "m">> => ret = 0
        /\ args[1] = <<"7", "m", "s">> => ret = 420000

(***************************************************************************)
(* Geography.                                                              *)
(***************************************************************************)

\* the longitude before normalisation of the call that has returned
RawLongitude ==
    IF op = "calculateDestination"
    THEN DestinationLongitude(args[1].lng,
                              DistanceKm(args[2], Option(args[4], "km")),
                              args[3])
    ELSE MidpointLongitude(args[1].lng, args[2].lng)

\* the raw longitude is on the antimeridian
OnAntimeridian == RawLongitude % (360 * AngleDen) = 180 * AngleDen

ReturnsLongitude ==
    Done("calculateDestination") \/ Done("calculateMidpoint")

\* C21 (as stated): every longitude calculateDestination and
\* calculateMidpoint return is in (-180, 180], and an antimeridian result is
\* reported as 180, never as -180.
C21_LongitudeHalfOpenAbove ==
    ReturnsLongitude =>
        /\ ret.lng > -180 * AngleDen
        /\ ret.lng <= 180 * AngleDen
        /\ OnAntimeridian => ret.lng = 180 * AngleDen

\* C21 (amended): for input longitudes in [-180, 180] every returned
\* longitude is in [-180, 180), differs from the raw longitude by whole
\* turns, and an antimeridian result is reported as -180, never as 180.
C21_LongitudeHalfOpenBelow ==
    ReturnsLongitude =>
        /\ ret.lng >= -180 * AngleDen
        /\ ret.lng < 180 * AngleDen
        /\ (ret.lng - RawLongitude) % (360 * AngleDen) = 0
        /\ OnAntimeridian => ret.lng = -180 * AngleDen

\* C21 witness: ten degrees east along the equator from longitude 170
\* arrives on the antimeridian, reported as -180
C21_Witness ==
    /\ Done("calculateDestination")
    /\ args[1].lng = 170
    /\ args[2] = 10
    /\ args[3] = 90
    /\ RawLongitude = 180 * AngleDen
    /\ ret.lng = -180 * AngleDen

\* C29: for every distance unit, the km value getBoundingBox derives from
\* radius and calculateDestination derives from distance equals
\* convertDistance(value, unit, 'km'); feet are not treated as miles.  The
\* km value shows in the results as the half height of the box and as the
\* latitude reached due north from the equator.
C29_KmAsConvertDistance ==
    /\ Done("getBoundingBox") =>
           LET unit == Option(args[3], "km")
           IN  /\ Fraction(RadiusKm(args[2], unit), AngleDen)
                      = ConvertDistance(args[2], unit, "km")
               /\ Fraction(ret.maxLat - args[1].lat * AngleDen, AngleDen)
                      = ConvertDistance(args[2], unit, "km")
    /\ Done("calculateDestination") =>
           LET unit == Option(args[4], "km")
           IN  /\ Fraction(DistanceKm(args[2], unit), AngleDen)
                      = ConvertDistance(args[2], unit, "km")
               /\ (args[3] = 0 /\ args[2] <= 10) =>
                      Fraction(ret.lat, AngleDen)
                          = ConvertDistance(args[2], unit, "km")

\* the same for the units km, m and mi
KmAsConvertDistanceButFeet ==
    /\ (Done("getBoundingBox") /\ Option(args[3], "km") # "ft") =>
           /\ Fraction(RadiusKm(args[2], Option(args[3], "km")), AngleDen)
                  = ConvertDistance(args[2], Option(args[3], "km"), "km")
           /\ Fraction(ret.maxLat - args[1].lat * AngleDen, AngleDen)
                  = ConvertDistance(args[2], Option(args[3], "km"), "km")
    /\ (Done("calculateDestination") /\ Option(args[4], "km") # "ft") =>
           Fraction(DistanceKm(args[2], Option(args[4], "km")), AngleDen)
               = ConvertDistance(args[2], Option(args[4], "km"), "km")

\* convertDistance to the same unit and back is the value itself
ConvertDistanceExamples ==
    Done("convertDistance") =>
        /\ args[2] = args[3] => ret = Fraction(args[1], 1)
        /\ (args[2] = "ft" /\ args[3] = "km")
               => ret = Fraction(args[1] * 3048, 10000000)
        /\ (args[2] = "mi" /\ args[3] = "km")
               => ret = Fraction(args[1] * 160934, 100000)
        /\ (args[2] = "km" /\ args[3] = "m")
               => ret = Fraction(args[1] * 1000, 1)

====
